---- MODULE Spec2Model ----
(***************************************************************************)
(* Take2: multimodal screening front end.                                  *)
(*                                                                         *)
(*   - the Results page (frontend/src/pages/Results.tsx): loading the      *)
(*     stored per-modality results and fusing them (calculateOverallRisk); *)
(*   - the blink tracker hook (useBlinkTracker in                          *)
(*     frontend/src/pages/Research.tsx): the per-frame eye state machine;  *)
(*   - the typing test (TypingTest component): the keystroke session over  *)
(*     a WebSocket, the 30-second timer and the key handlers.              *)
(*                                                                         *)
(* JavaScript numbers are modelled as exact rationals [n |-> _, d |-> _]   *)
(* in lowest terms; floating-point rounding is not modelled.               *)
(***************************************************************************)
EXTENDS Integers, Sequences, FiniteSets, TLC

VARIABLES
    \* ---- browser sessionStorage (shared by the pages) ----
    typingAnalysis,      \* sessionStorage['typingAnalysis']
    voiceAnalysis,       \* sessionStorage['voiceAnalysis']
    blinkAnalysisVoice,  \* sessionStorage['blinkAnalysisVoice']
    written,             \* the keys set since the current assessment began
    \* ---- ResultsPage component ----
    page,                \* which route is mounted
    typingResults,       \* useState typingResults
    voiceResults,        \* useState voiceResults
    parsedVoiceAnalysis, \* useState parsedVoiceAnalysis
    overallRisk,         \* useState overallRisk
    riskCategory,        \* useState riskCategory
    lastCall,            \* arguments of the latest calculateOverallRisk call
    \* ---- useBlinkTracker hook and its host (VoiceTest) ----
    isActive,            \* the hook argument (VoiceTest's isRecording)
    isTracking,          \* useState isTracking
    blinkCount,          \* useState blinkCount (the displayed count)
    effectPending,       \* a render with changed effect dependencies is due
    cleanupTracking,     \* isTracking as captured by the last effect's cleanup
    cameras,             \* every Camera object created so far, by state
    cameraRef,           \* cameraRef.current: index into cameras, 0 = null
    faceMeshRef,         \* faceMeshRef.current is set
    callbackActive,      \* isActive as captured by the registered callbacks
    blinkData,           \* blinkDataRef.current
    consecutiveClosedFrames,  \* consecutiveClosedFramesRef.current
    now,                 \* performance.now() / 1000
    inFlight,            \* a frame sent to the face mesh awaits its results
    lastFrame,           \* kind of the results last handed to onResults
    posted,              \* summaries POSTed since the recording started
    \* ---- TypingTest component and its WebSocket ----
    mounted,             \* the component is mounted
    mountCount,          \* number of times the component was mounted
    wsCreated,           \* number of WebSocket objects constructed
    readyState,          \* ws.readyState of the current WebSocket
    sessionIdRef,        \* sessionIdRef.current
    sent,                \* messages sent on the current WebSocket, in order
    input,               \* useState input (its length)
    timeLeft,            \* useState timeLeft
    testActive,          \* useState isActive of the typing test
    isComplete,          \* useState isComplete
    analysisScore,       \* useState analysisScore
    analysisBand,        \* useState analysisBand
    rendered,            \* the state values captured by the last render
    renderPending,       \* a state update awaits its render
    intervalOn,          \* the timer effect's interval is registered
    lastFinal,           \* the latest `final` message received
    lastUpdate,          \* the latest `update` message received
    \* ---- VoiceTest component ----
    voiceMounted,        \* the component is mounted
    streams,             \* the microphone streams requested, in order
    recorderRef,         \* mediaRecorderRef.current / timerRef.current
    recordingTime,       \* useState recordingTime
    audioBlob,           \* useState audioBlob is not null
    isAnalyzing,         \* useState isAnalyzing
    toast,               \* the last toast shown
    navigateTimer,       \* the one-second timer before navigate('/results')
    \* ---- VoiceTestPage component (Research.tsx) ----
    voicePage            \* its state, refs, recorder and interval

storageVars == <<typingAnalysis, voiceAnalysis, blinkAnalysisVoice, written>>
resultsVars == <<page, typingResults, voiceResults, parsedVoiceAnalysis,
                 overallRisk, riskCategory, lastCall>>
trackerVars == <<isActive, isTracking, blinkCount, effectPending,
                 cleanupTracking, cameras, cameraRef, faceMeshRef,
                 callbackActive, blinkData,
                 consecutiveClosedFrames, now, inFlight, lastFrame, posted>>
typingVars  == <<mounted, mountCount, wsCreated, readyState, sessionIdRef,
                 sent, input, timeLeft, testActive, isComplete, analysisScore,
                 analysisBand, rendered, renderPending, intervalOn, lastFinal,
                 lastUpdate>>
voiceVars   == <<voiceMounted, streams, recorderRef, recordingTime, audioBlob,
                 isAnalyzing, toast, navigateTimer>>

-----------------------------------------------------------------------------
(* Exact rational arithmetic standing in for JavaScript numbers.           *)

RECURSIVE GCD(_, _)
GCD(a, b) == IF b = 0 THEN a ELSE GCD(b, a % b)

Abs(x) == IF x < 0 THEN -x ELSE x

\* the rational p/q (q > 0) in lowest terms
Rat(p, q) ==
    LET g == GCD(Abs(p), q)
    IN  IF p = 0 THEN [n |-> 0, d |-> 1] ELSE [n |-> p \div g, d |-> q \div g]

RatAdd(a, b) == Rat(a.n * b.d + b.n * a.d, a.d * b.d)
RatSub(a, b) == Rat(a.n * b.d - b.n * a.d, a.d * b.d)
RatMul(a, b) == Rat(a.n * b.n, a.d * b.d)
\* a / k for an integer k > 0
RatDivInt(a, k) == Rat(a.n, a.d * k)
\* a / b for b > 0
RatDiv(a, b) == Rat(a.n * b.d, a.d * b.n)
RatLT(a, b)  == a.n * b.d < b.n * a.d
RatLE(a, b)  == a.n * b.d <= b.n * a.d
R0 == Rat(0, 1)
R1 == Rat(1, 1)

-----------------------------------------------------------------------------
(* Values that the stored results can take.                                *)

\* JavaScript null / no item in sessionStorage
Null       == [null |-> TRUE]
\* JavaScript undefined / property not present
Undefined  == [undefined |-> TRUE]
\* an exception raised by JSON.parse
ParseError == [throw |-> TRUE]

\* risk scores and confidences in [0,1]
ScoreValues == { Rat(0, 10), Rat(1, 10), Rat(2, 10), Rat(3, 10),
                 Rat(5, 10), Rat(7, 10), Rat(8, 10), Rat(10, 10) }
ConfValues  == { Rat(0, 1), Rat(1, 2), Rat(1, 1) }

\* band labels sent by the keystroke scorer
Bands == {"LOW", "HIGH"}

\* the `final` message stored by the typing test; score_0to1 is optional
TypingData == [type : {"final"}, score_0to1 : ScoreValues \cup {Undefined},
               band : Bands]

\* llm_analysis.raw_response of a stored voice result:
\*   "missing" - no raw_response (or an empty one)
\*   "fenced"  - a string holding a ```json {...} ``` block
\*   "plain"   - a string that is itself JSON
\*   "garbage" - a string that is not JSON
\*   "object"  - already an object
\* body is the annotator's risk_assessment carried by the response
RiskAssessment == [overall_risk_score : ScoreValues \cup {Undefined},
                   confidence : ConfValues]
VoiceData ==
    [raw : {"missing", "garbage"}, body : {Undefined}]
      \cup [raw : {"fenced", "plain", "object"}, body : RiskAssessment]

\* the blink data stored by the voice test (count, seconds)
BlinkCounts == {0, 1, 2, 3, 5, 20}
Durations   == {0, 2, 12, 60}
BlinkStored == [blinkCount : BlinkCounts, duration : Durations]

-----------------------------------------------------------------------------
(* Results.tsx: calculateOverallRisk                                       *)

\* parsing of raw_response (Results.tsx 81-93): the regex match + JSON.parse;
\* ParseError when JSON.parse raises
ParseRawResponse(v) ==
    CASE v.raw = "fenced"  -> v.body
      [] v.raw = "plain"   -> v.body
      [] v.raw = "object"  -> v.body
      [] v.raw = "garbage" -> ParseError

\* voice?.llm_analysis?.raw_response is truthy
HasRawResponse(voice) == voice # Null /\ voice.raw # "missing"

\* variant: a failed voice parse contributes a zero score
CollectRisksZeroOnFailure(typing, voice) ==
    LET t == IF typing # Null /\ typing.score_0to1 # Undefined
             THEN <<typing.score_0to1>> ELSE <<>>
        p == IF HasRawResponse(voice) THEN ParseRawResponse(voice) ELSE ParseError
        v == IF HasRawResponse(voice) /\ p # ParseError
                /\ p.overall_risk_score # Undefined
             THEN <<p.overall_risk_score>>
             ELSE IF HasRawResponse(voice) THEN <<R0>> ELSE <<>>
    IN  t \o v

\* the risks array built by calculateOverallRisk (Results.tsx 72-101)
CollectRisks(typing, voice) ==
    LET t == IF typing # Null /\ typing.score_0to1 # Undefined
             THEN <<typing.score_0to1>> ELSE <<>>
        p == IF HasRawResponse(voice) THEN ParseRawResponse(voice) ELSE ParseError
        v == IF HasRawResponse(voice) /\ p # ParseError
                /\ p.overall_risk_score # Undefined
             THEN <<p.overall_risk_score>> ELSE <<>>
    IN  t \o v

\* risks.reduce((a, b) => a + b, 0)
RECURSIVE SumRisks(_)
SumRisks(risks) ==
    IF risks = <<>> THEN R0
    ELSE RatAdd(SumRisks(SubSeq(risks, 1, Len(risks) - 1)), risks[Len(risks)])

\* variant: the documented positional weights (typing 30%, voice 35%,
\* blink 35%) applied to the array slots
FusionWeights == <<30, 35, 35>>
RECURSIVE WeightedSlots(_)
WeightedSlots(risks) ==
    IF risks = <<>> THEN R0
    ELSE RatAdd(WeightedSlots(SubSeq(risks, 1, Len(risks) - 1)),
                RatMul(Rat(FusionWeights[Len(risks)], 100), risks[Len(risks)]))
AvgRiskPositional(risks) == WeightedSlots(risks)

\* avgRisk (Results.tsx 104), for a non-empty risks array
AvgRisk(risks) == RatDivInt(SumRisks(risks), Len(risks))

\* variant: the first threshold closed on the wrong side
RiskBandClosedLow(avgRisk) ==
    IF RatLE(avgRisk, Rat(3, 10)) THEN "low"
    ELSE IF RatLT(avgRisk, Rat(5, 10)) THEN "moderate"
    ELSE IF RatLT(avgRisk, Rat(7, 10)) THEN "elevated"
    ELSE "high"

\* the band chain (Results.tsx 107-115)
RiskBand(avgRisk) ==
    IF RatLT(avgRisk, Rat(3, 10)) THEN "low"
    ELSE IF RatLT(avgRisk, Rat(5, 10)) THEN "moderate"
    ELSE IF RatLT(avgRisk, Rat(7, 10)) THEN "elevated"
    ELSE "high"

\* the whole function as a state update of (overallRisk, riskCategory)
calculateOverallRisk(typing, voice, oldRisk, oldCategory) ==
    LET risks == CollectRisks(typing, voice)
    IN  IF Len(risks) > 0
        THEN [risk |-> AvgRisk(risks), category |-> RiskBand(AvgRisk(risks))]
        ELSE [risk |-> oldRisk, category |-> oldCategory]

\* useState initial values (Results.tsx 22-26)
InitialOverallRisk  == R0
InitialRiskCategory == "unknown"

\* setParsedVoiceAnalysis in the load effect (Results.tsx 37-62)
LoadParsedVoice(voice) ==
    IF HasRawResponse(voice) /\ ParseRawResponse(voice) # ParseError
    THEN ParseRawResponse(voice) ELSE Null

-----------------------------------------------------------------------------
(* Blink normaliser: the rate and the risk are computed by the analysis    *)
(* service behind POST /api/blink/analyze, which the hook only calls.      *)

\* blinkRatePerMinute = blinkCount / durationSeconds * 60, duration > 0
BlinkRate(count, seconds) == Rat(count * 60, seconds)

\* variant: the linear map without the clamp
BlinkRiskUnclamped(rate) == RatDivInt(RatSub(Rat(20, 1), rate), 15)

\* blinkRisk = max(0.0, min(1.0, (20 - blinkRate) / 15))
BlinkRisk(rate) ==
    LET lin == RatDivInt(RatSub(Rat(20, 1), rate), 15)
        lo  == IF RatLT(R1, lin) THEN R1 ELSE lin
    IN  IF RatLT(lo, R0) THEN R0 ELSE lo

\* sessions shorter than the usable minimum carry no confidence
MinUsableSeconds == 3
BlinkConfidence(duration) == IF duration < MinUsableSeconds THEN R0 ELSE R1

-----------------------------------------------------------------------------
(* useBlinkTracker (Research.tsx 856-1105)                                 *)

\* bounds of the model
MaxFrames   == 4     \* processed frames per tracking session
MaxSessions == 1     \* tracking sessions (cameras created)
MaxTime     == 1     \* clock ticks

LEFT_EYE  == <<362, 385, 387, 263, 373, 380>>
RIGHT_EYE == <<33, 160, 158, 133, 153, 144>>

EAR_THRESHOLD == Rat(25, 100)
CONSEC_FRAMES == 2

\* floor of the square root; the landmark sets used are axis-aligned, so
\* every squared distance is a perfect square
ISqrt(k) == CHOOSE r \in 0..k : r * r <= k /\ (r + 1) * (r + 1) > k

euclideanDistance(point1, point2) ==
    LET dx == point1.x - point2.x
        dy == point1.y - point2.y
    IN  ISqrt(dx * dx + dy * dy)

\* (A + B) / (2.0 * C); 1.0 for a short array or when reading a point of an
\* undefined landmark throws.  The eye corners of the landmark sets used are
\* distinct (C > 0).
calculateEAR(eyeLandmarks) ==
    IF Len(eyeLandmarks) < 6 THEN R1
    ELSE IF \E i \in 1..6 : eyeLandmarks[i] = Undefined THEN R1
    ELSE LET A == euclideanDistance(eyeLandmarks[2], eyeLandmarks[6])
             B == euclideanDistance(eyeLandmarks[3], eyeLandmarks[5])
             C == euclideanDistance(eyeLandmarks[1], eyeLandmarks[4])
         IN  Rat(A + B, 2 * C)

\* eyeIndices.map(idx => landmarks[idx])
getEyeLandmarks(landmarks, eyeIndices) ==
    [i \in 1..Len(eyeIndices) |->
        IF eyeIndices[i] \in DOMAIN landmarks THEN landmarks[eyeIndices[i]]
        ELSE Undefined]

\* avgEAR of one face (Research.tsx 930-941)
AvgEAR(faceLandmarks) ==
    LET leftEAR  == calculateEAR(getEyeLandmarks(faceLandmarks, LEFT_EYE))
        rightEAR == calculateEAR(getEyeLandmarks(faceLandmarks, RIGHT_EYE))
    IN  RatDivInt(RatAdd(leftEAR, rightEAR), 2)

\* variant: a sample exactly at the threshold counts as closed
IsBelowThresholdInclusive(avgEAR) == RatLE(avgEAR, EAR_THRESHOLD)

\* avgEAR < EAR_THRESHOLD (Research.tsx 947)
IsBelowThreshold(avgEAR) == RatLT(avgEAR, EAR_THRESHOLD)

\* ---- landmark sets delivered by the face mesh ----
\* six eye points of width 4: upper lid at heights a and b over the lower lid
EyeShape(a, b) ==
    << [x |-> 0, y |-> 0], [x |-> 1, y |-> a], [x |-> 3, y |-> b],
       [x |-> 4, y |-> 0], [x |-> 3, y |-> 0], [x |-> 1, y |-> 0] >>
ClosedEye == EyeShape(0, 0)    \* EAR 0
OpenEye   == EyeShape(2, 2)    \* EAR 1/2

EyeIndexSet == {LEFT_EYE[i] : i \in 1..6} \cup {RIGHT_EYE[i] : i \in 1..6}
SlotOf(seq, idx) == CHOOSE i \in 1..6 : seq[i] = idx

\* a face mesh with the given left and right eye
Face(left, right) ==
    [idx \in EyeIndexSet |->
        IF \E i \in 1..6 : LEFT_EYE[i] = idx THEN left[SlotOf(LEFT_EYE, idx)]
        ELSE right[SlotOf(RIGHT_EYE, idx)]]
\* a corrupt landmark set: the left eye's indices are missing
FaceWithoutLeftEye(right) ==
    [idx \in {RIGHT_EYE[i] : i \in 1..6} |-> right[SlotOf(RIGHT_EYE, idx)]]

\* results.multiFaceLandmarks of one frame
FrameResults ==
    { <<>>,                                   \* no face detected
      << Face(ClosedEye, ClosedEye) >>,       \* avgEAR 0
      << Face(ClosedEye, OpenEye) >>,         \* avgEAR 1/4, on the threshold
      << Face(OpenEye, OpenEye) >>,           \* avgEAR 1/2
      << FaceWithoutLeftEye(ClosedEye) >> }   \* corrupt: avgEAR (1 + 0)/2

\* ---- the mutable state touched by startTracking / stopTracking ----
FreshBlinkData ==
    [blinkCount |-> 0, duration |-> 0, blinkTimestamps |-> <<>>,
     earValues |-> <<>>, startTime |-> 0]

Tracker ==
    [isTracking |-> isTracking, blinkCount |-> blinkCount, cameras |-> cameras,
     cameraRef |-> cameraRef, faceMeshRef |-> faceMeshRef,
     callbackActive |-> callbackActive, blinkData |-> blinkData,
     consecutiveClosedFrames |-> consecutiveClosedFrames, posted |-> posted]

\* startTracking up to `await camera.start()` (Research.tsx 962-1014); the
\* onResults and onFrame closures it registers keep the isActive of the
\* render that created them
startTrackingKeepingClosedRun(t) ==
    [t EXCEPT !.faceMeshRef = TRUE,
              !.callbackActive = isActive,
              !.cameras = Append(t.cameras, "starting"),
              !.cameraRef = Len(t.cameras) + 1,
              !.blinkData = [FreshBlinkData EXCEPT !.startTime = now],
              !.blinkCount = 0]
startTracking(t) ==
    [t EXCEPT !.faceMeshRef = TRUE,
              !.callbackActive = isActive,
              !.cameras = Append(t.cameras, "starting"),
              !.cameraRef = Len(t.cameras) + 1,
              !.blinkData = [FreshBlinkData EXCEPT !.startTime = now],
              !.consecutiveClosedFrames = 0,
              !.blinkCount = 0]

\* Camera.stop(): releases a running camera
StopCamera(cs, i) ==
    [cs EXCEPT ![i] = IF cs[i] = "running" THEN "stopped" ELSE cs[i]]

\* stopTracking up to the fetch of /api/blink/analyze, which posts the
\* summary (Research.tsx 1026-1062)
stopTracking(t) ==
    [t EXCEPT !.cameras = IF t.cameraRef # 0 THEN StopCamera(t.cameras, t.cameraRef)
                          ELSE t.cameras,
              !.cameraRef = 0,
              !.faceMeshRef = FALSE,
              !.isTracking = FALSE,
              !.blinkData = [t.blinkData EXCEPT !.duration = now - t.blinkData.startTime],
              !.posted = t.posted + 1]

SetTracker(t) ==
    /\ isTracking' = t.isTracking
    /\ blinkCount' = t.blinkCount
    /\ cameras' = t.cameras
    /\ cameraRef' = t.cameraRef
    /\ faceMeshRef' = t.faceMeshRef
    /\ callbackActive' = t.callbackActive
    /\ blinkData' = t.blinkData
    /\ consecutiveClosedFrames' = t.consecutiveClosedFrames
    /\ posted' = t.posted

\* VoiceTestPage before the first click: the useState and useRef initial
\* values; `recorder` is the state of the MediaRecorder and its stream,
\* `ticks` counts the interval callbacks since the recording started
InitialVoicePage ==
    [mounted |-> TRUE, recorder |-> "none", isRecording |-> FALSE,
     recordingTime |-> 0, ticks |-> 0, timerOn |-> FALSE,
     audioBlob |-> FALSE, isAnalyzing |-> FALSE, analysisResult |-> FALSE]

InitTracker ==
    /\ isActive = FALSE
    /\ isTracking = FALSE
    /\ blinkCount = 0
    /\ effectPending = FALSE
    /\ cleanupTracking = FALSE
    /\ cameras = <<>>
    /\ cameraRef = 0
    /\ faceMeshRef = FALSE
    /\ callbackActive = FALSE
    /\ blinkData = FreshBlinkData
    /\ consecutiveClosedFrames = 0
    /\ now = 0
    /\ inFlight = FALSE
    /\ lastFrame = "none"
    /\ posted = 0

\* ---- VoiceTest: microphone, MediaRecorder and recording timer ----

\* the recording limit of the interval callback: `if (t >= 5)`
RecordingLimit == 5

\* a stream is "requested" while getUserMedia is awaited, "denied" when it
\* rejects, "recording" while its MediaRecorder runs, "stopping" between
\* MediaRecorder.stop() and the onstop event, "released" once onstop has
\* stopped its tracks, and "live" when it was acquired but the recorder
\* could not be created or started
MicrophoneOpen(i) == streams[i] \in {"recording", "stopping", "live"}

\* the interval of stream i is set together with its recorder and cleared
\* together with MediaRecorder.stop()
IntervalRunning(i) == streams[i] = "recording"

\* the isRecording read by the stopRecording that the interval callback
\* calls: the one of the render in which startRecording was created, where
\* the Start button is shown only when isRecording is false
IntervalSeesRecording == FALSE

InitVoice ==
    /\ voiceMounted = TRUE
    /\ streams = <<>>
    /\ recorderRef = 0
    /\ recordingTime = 0
    /\ audioBlob = FALSE
    /\ isAnalyzing = FALSE
    /\ toast = "none"
    /\ navigateTimer = FALSE

\* VoiceTest.startRecording up to `await getUserMedia` (the Start button is
\* shown when there is no audioBlob and isRecording is false)
StartRecording ==
    /\ voiceMounted
    /\ ~isActive /\ ~audioBlob
    /\ Len(cameras) < MaxSessions
    /\ Len(streams) < MaxSessions
    /\ streams' = Append(streams, "requested")
    /\ UNCHANGED <<voiceMounted, recorderRef, recordingTime, audioBlob,
                   isAnalyzing, toast, navigateTimer>>
    /\ UNCHANGED trackerVars
    /\ UNCHANGED storageVars
    /\ UNCHANGED resultsVars
    /\ UNCHANGED typingVars
    /\ UNCHANGED voicePage

\* getUserMedia resolves and the recorder starts: mediaRecorder.start(),
\* setIsRecording(true), setRecordingTime(0), setInterval
MicGranted ==
    /\ \E i \in 1..Len(streams) :
          /\ streams[i] = "requested"
          /\ streams' = [streams EXCEPT ![i] = "recording"]
          /\ recorderRef' = i
    /\ isActive' = (voiceMounted \/ isActive)
    /\ recordingTime' = IF voiceMounted THEN 0 ELSE recordingTime
    /\ effectPending' = (voiceMounted /\ (effectPending \/ ~isActive))
    /\ posted' = 0
    /\ UNCHANGED <<voiceMounted, audioBlob, isAnalyzing, toast, navigateTimer>>
    /\ UNCHANGED <<isTracking, blinkCount, cleanupTracking, cameras, cameraRef,
                   faceMeshRef, callbackActive, blinkData,
                   consecutiveClosedFrames, now, inFlight, lastFrame>>
    /\ UNCHANGED storageVars
    /\ UNCHANGED resultsVars
    /\ UNCHANGED typingVars
    /\ UNCHANGED voicePage

\* getUserMedia rejects: the catch block shows the toast
MicDenied ==
    /\ \E i \in 1..Len(streams) :
          /\ streams[i] = "requested"
          /\ streams' = [streams EXCEPT ![i] = "denied"]
    /\ toast' = "mic-denied"
    /\ UNCHANGED <<voiceMounted, recorderRef, recordingTime, audioBlob,
                   isAnalyzing, navigateTimer>>
    /\ UNCHANGED trackerVars
    /\ UNCHANGED storageVars
    /\ UNCHANGED resultsVars
    /\ UNCHANGED typingVars
    /\ UNCHANGED voicePage

\* getUserMedia resolves but `new MediaRecorder(stream)` or
\* mediaRecorder.start() throws: the same catch block, the stream is kept
RecorderFailed ==
    /\ \E i \in 1..Len(streams) :
          /\ streams[i] = "requested"
          /\ streams' = [streams EXCEPT ![i] = "live"]
    /\ toast' = "mic-denied"
    /\ UNCHANGED <<voiceMounted, recorderRef, recordingTime, audioBlob,
                   isAnalyzing, navigateTimer>>
    /\ UNCHANGED trackerVars
    /\ UNCHANGED storageVars
    /\ UNCHANGED resultsVars
    /\ UNCHANGED typingVars
    /\ UNCHANGED voicePage

\* the body of VoiceTest.stopRecording behind its guard
\* `mediaRecorderRef.current && isRecording`: MediaRecorder.stop(),
\* setIsRecording(false), clearInterval, stopTracking(), and the returned
\* blink data stored under blinkAnalysisVoice
StopRecordingBody ==
    /\ streams' = [streams EXCEPT
                      ![recorderRef] = IF @ = "recording" THEN "stopping" ELSE @]
    /\ isActive' = FALSE
    /\ effectPending' = TRUE
    /\ SetTracker(stopTracking(Tracker))
    /\ blinkAnalysisVoice' = [blinkCount |-> blinkData'.blinkCount,
                              duration |-> blinkData'.duration]
    /\ written' = written \cup {"blinkAnalysisVoice"}

\* what stopRecording leaves alone
StopRecordingFrame ==
    /\ UNCHANGED <<voiceMounted, recorderRef, recordingTime, audioBlob,
                   isAnalyzing, toast, navigateTimer>>
    /\ UNCHANGED <<cleanupTracking, now, inFlight, lastFrame>>
    /\ UNCHANGED <<typingAnalysis, voiceAnalysis>>
    /\ UNCHANGED resultsVars
    /\ UNCHANGED typingVars
    /\ UNCHANGED voicePage

\* the Stop button (shown while isRecording): stopRecording of the current
\* render
StopRecording ==
    /\ voiceMounted
    /\ isActive
    /\ recorderRef # 0
    /\ StopRecordingBody
    /\ StopRecordingFrame

\* the interval callback: setRecordingTime(updater); at the limit the
\* updater calls the stopRecording captured by startRecording
RecordingTick ==
    /\ voiceMounted
    /\ \E i \in 1..Len(streams) : IntervalRunning(i)
    /\ IF recordingTime >= RecordingLimit
       THEN /\ recorderRef # 0 /\ IntervalSeesRecording
            /\ StopRecordingBody
            /\ StopRecordingFrame
       ELSE /\ recordingTime' = recordingTime + 1
            /\ UNCHANGED <<voiceMounted, streams, recorderRef, audioBlob,
                           isAnalyzing, toast, navigateTimer>>
            /\ UNCHANGED trackerVars
            /\ UNCHANGED storageVars
            /\ UNCHANGED resultsVars
            /\ UNCHANGED typingVars
            /\ UNCHANGED voicePage

\* mediaRecorder.onstop: setAudioBlob(blob) and the tracks are stopped
RecorderStopped ==
    /\ \E i \in 1..Len(streams) :
          /\ streams[i] = "stopping"
          /\ streams' = [streams EXCEPT ![i] = "released"]
    /\ audioBlob' = (voiceMounted \/ audioBlob)
    /\ UNCHANGED <<voiceMounted, recorderRef, recordingTime, isAnalyzing,
                   toast, navigateTimer>>
    /\ UNCHANGED trackerVars
    /\ UNCHANGED storageVars
    /\ UNCHANGED resultsVars
    /\ UNCHANGED typingVars
    /\ UNCHANGED voicePage

\* the Retry button: setAudioBlob(null)
Retry ==
    /\ voiceMounted
    /\ audioBlob /\ ~isActive
    /\ audioBlob' = FALSE
    /\ UNCHANGED <<voiceMounted, streams, recorderRef, recordingTime,
                   isAnalyzing, toast, navigateTimer>>
    /\ UNCHANGED trackerVars
    /\ UNCHANGED storageVars
    /\ UNCHANGED resultsVars
    /\ UNCHANGED typingVars
    /\ UNCHANGED voicePage

\* the hook's lifecycle effect after a render with changed dependencies
\* (Research.tsx 1085-1097): the previous cleanup, then the body
LifecycleEffect ==
    /\ effectPending
    /\ LET afterCleanup == IF cleanupTracking THEN stopTracking(Tracker)
                           ELSE Tracker
           afterBody ==
               IF isActive /\ ~isTracking THEN startTracking(afterCleanup)
               ELSE IF ~isActive /\ isTracking THEN stopTracking(afterCleanup)
               ELSE afterCleanup
       IN  /\ SetTracker(afterBody)
           /\ effectPending' = (afterBody.isTracking # isTracking)
    /\ cleanupTracking' = isTracking
    /\ UNCHANGED <<isActive, now, inFlight, lastFrame>>
    /\ UNCHANGED storageVars
    /\ UNCHANGED resultsVars
    /\ UNCHANGED typingVars
    /\ UNCHANGED voicePage
    /\ UNCHANGED voiceVars

\* `await camera.start()` resolves: the camera runs, setIsTracking(true)
CameraStarted ==
    /\ \E i \in 1..Len(cameras) :
          /\ cameras[i] = "starting"
          /\ cameras' = [cameras EXCEPT ![i] = "running"]
    /\ isTracking' = (voiceMounted \/ isTracking)
    /\ effectPending' = (voiceMounted /\ (effectPending \/ ~isTracking))
    /\ UNCHANGED <<isActive, blinkCount, cleanupTracking, cameraRef, faceMeshRef,
                   callbackActive, blinkData, consecutiveClosedFrames, now,
                   inFlight, lastFrame, posted>>
    /\ UNCHANGED storageVars
    /\ UNCHANGED resultsVars
    /\ UNCHANGED typingVars
    /\ UNCHANGED voicePage
    /\ UNCHANGED voiceVars

\* a failed start that reports tracking all the same
CameraFailedReportingTracking ==
    /\ \E i \in 1..Len(cameras) :
          /\ cameras[i] = "starting"
          /\ cameras' = [cameras EXCEPT ![i] = "failed"]
    /\ isTracking' = TRUE
    /\ UNCHANGED <<isActive, blinkCount, effectPending,
                   cleanupTracking, cameraRef, faceMeshRef, callbackActive,
                   blinkData, consecutiveClosedFrames, now, inFlight,
                   lastFrame, posted>>
    /\ UNCHANGED storageVars
    /\ UNCHANGED resultsVars
    /\ UNCHANGED typingVars
    /\ UNCHANGED voicePage
    /\ UNCHANGED voiceVars
\* `await camera.start()` rejects: caught, startTracking returns false
CameraFailed ==
    /\ \E i \in 1..Len(cameras) :
          /\ cameras[i] = "starting"
          /\ cameras' = [cameras EXCEPT ![i] = "failed"]
    /\ UNCHANGED <<isActive, isTracking, blinkCount, effectPending,
                   cleanupTracking, cameraRef, faceMeshRef, callbackActive,
                   blinkData, consecutiveClosedFrames, now, inFlight,
                   lastFrame, posted>>
    /\ UNCHANGED storageVars
    /\ UNCHANGED resultsVars
    /\ UNCHANGED typingVars
    /\ UNCHANGED voicePage
    /\ UNCHANGED voiceVars

\* the kind of a frame's results
FrameKind(results) ==
    IF Len(results) = 0 THEN "no-face"
    ELSE IF DOMAIN results[1] = EyeIndexSet THEN "face"
    ELSE "corrupt"

\* onResults (Research.tsx 925-960) applied to the tracker state
onResultsResettingOnNoFace(t, results) ==
    IF ~t.callbackActive THEN t
    ELSE IF Len(results) = 0 THEN [t EXCEPT !.consecutiveClosedFrames = 0]
    ELSE LET avgEAR == AvgEAR(results[1])
             closed == IsBelowThreshold(avgEAR)
             blink  == ~closed /\ t.consecutiveClosedFrames >= CONSEC_FRAMES
         IN  [t EXCEPT
                !.blinkData =
                    [t.blinkData EXCEPT
                       !.earValues = Append(@, avgEAR),
                       !.blinkCount = IF blink THEN @ + 1 ELSE @,
                       !.blinkTimestamps = IF blink THEN Append(@, now) ELSE @],
                !.blinkCount = IF blink THEN t.blinkData.blinkCount + 1 ELSE @,
                !.consecutiveClosedFrames = IF closed THEN @ + 1 ELSE 0]
onResultsWithoutSample(t, results) ==
    IF ~t.callbackActive \/ Len(results) = 0 THEN t
    ELSE LET avgEAR == AvgEAR(results[1])
             closed == IsBelowThreshold(avgEAR)
             blink  == ~closed /\ t.consecutiveClosedFrames >= CONSEC_FRAMES
         IN  [t EXCEPT
                !.blinkData =
                    [t.blinkData EXCEPT
                       !.blinkCount = IF blink THEN @ + 1 ELSE @,
                       !.blinkTimestamps = IF blink THEN Append(@, now) ELSE @],
                !.blinkCount = IF blink THEN t.blinkData.blinkCount + 1 ELSE @,
                !.consecutiveClosedFrames = IF closed THEN @ + 1 ELSE 0]
onResults(t, results) ==
    IF ~t.callbackActive \/ Len(results) = 0 THEN t
    ELSE LET avgEAR == AvgEAR(results[1])
             closed == IsBelowThreshold(avgEAR)
             blink  == ~closed /\ t.consecutiveClosedFrames >= CONSEC_FRAMES
         IN  [t EXCEPT
                !.blinkData =
                    [t.blinkData EXCEPT
                       !.earValues = Append(@, avgEAR),
                       !.blinkCount = IF blink THEN @ + 1 ELSE @,
                       !.blinkTimestamps = IF blink THEN Append(@, now) ELSE @],
                !.blinkCount = IF blink THEN t.blinkData.blinkCount + 1 ELSE @,
                !.consecutiveClosedFrames = IF closed THEN @ + 1 ELSE 0]

\* one camera frame: onFrame sends the image to the face mesh and awaits it
\* (Research.tsx 991-995)
OnFrame ==
    /\ \E i \in 1..Len(cameras) : cameras[i] = "running"
    /\ faceMeshRef /\ callbackActive
    /\ ~inFlight
    /\ inFlight' = TRUE
    /\ UNCHANGED <<isActive, isTracking, blinkCount, effectPending,
                   cleanupTracking, cameras, cameraRef, faceMeshRef,
                   callbackActive, blinkData, consecutiveClosedFrames, now,
                   lastFrame, posted>>
    /\ UNCHANGED storageVars
    /\ UNCHANGED resultsVars
    /\ UNCHANGED typingVars
    /\ UNCHANGED voicePage
    /\ UNCHANGED voiceVars

\* the face mesh delivers the results of the frame in flight to the
\* onResults closure registered by startTracking
OnResultsFrame ==
    /\ inFlight
    /\ \E results \in FrameResults :
          /\ Len(results) > 0 => Len(blinkData.earValues) < MaxFrames
          /\ SetTracker(onResults(Tracker, results))
          /\ lastFrame' = FrameKind(results)
    /\ inFlight' = FALSE
    /\ UNCHANGED <<isActive, effectPending, cleanupTracking, now>>
    /\ UNCHANGED storageVars
    /\ UNCHANGED resultsVars
    /\ UNCHANGED typingVars
    /\ UNCHANGED voicePage
    /\ UNCHANGED voiceVars

\* faceMesh.close() (Research.tsx 1036-1039) with a frame in flight: what
\* the closed solution does with it is not defined, so the results are
\* either delivered (OnResultsFrame) or never delivered
FrameDropped ==
    /\ inFlight
    /\ ~faceMeshRef
    /\ inFlight' = FALSE
    /\ lastFrame' = "dropped"
    /\ UNCHANGED <<isActive, isTracking, blinkCount, effectPending,
                   cleanupTracking, cameras, cameraRef, faceMeshRef,
                   callbackActive, blinkData, consecutiveClosedFrames, now,
                   posted>>
    /\ UNCHANGED storageVars
    /\ UNCHANGED resultsVars
    /\ UNCHANGED typingVars
    /\ UNCHANGED voicePage
    /\ UNCHANGED voiceVars

\* time passes
Tick ==
    /\ now < MaxTime
    /\ now' = now + 1
    /\ UNCHANGED <<isActive, isTracking, blinkCount, effectPending,
                   cleanupTracking, cameras, cameraRef, faceMeshRef,
                   callbackActive, blinkData, consecutiveClosedFrames,
                   inFlight, lastFrame, posted>>
    /\ UNCHANGED storageVars
    /\ UNCHANGED resultsVars
    /\ UNCHANGED typingVars
    /\ UNCHANGED voicePage
    /\ UNCHANGED voiceVars

NextBlink ==
    \/ StartRecording
    \/ MicGranted
    \/ StopRecording
    \/ LifecycleEffect
    \/ CameraStarted
    \/ CameraFailed
    \/ OnFrame
    \/ OnResultsFrame
    \/ FrameDropped
    \/ Tick

-----------------------------------------------------------------------------
(* The typing test (TypingTest component): one WebSocket per mount, the    *)
(* 30-second timer, the key handlers and the message handler.  React state *)
(* is modelled in two layers: the state variables hold the latest value    *)
(* set by a setter, `rendered` holds the values captured by the closures   *)
(* of the last render (event handlers and effects read those).             *)

\* bounds of the exploration
MaxMounts == 1      \* mounts of the component
MaxSent   == 2      \* messages sent on one WebSocket

\* useState(30)
InitialTimeLeft == 30

\* lengths of the typed text that are told apart: empty and not empty
InputLengths == {0, 1}

\* the messages the server can send
ConnectedMessages == [type : {"connected"}, session_id : {"s1"}]
UpdateMessages    ==
    { [type |-> "update", score |-> Rat(2, 10), band |-> "LOW"],
      [type |-> "update", score |-> Rat(8, 10), band |-> "HIGH"] }
FinalMessages     ==
    { [type |-> "final", score_0to1 |-> Rat(2, 10), band |-> "LOW"],
      [type |-> "final", score_0to1 |-> Rat(8, 10), band |-> "HIGH"],
      [type |-> "final", score_0to1 |-> Undefined, band |-> "LOW"] }
ServerMessages    == ConnectedMessages \cup UpdateMessages \cup FinalMessages

\* the values a render captures
RenderedState ==
    [input |-> input, timeLeft |-> timeLeft, isActive |-> testActive,
     isComplete |-> isComplete]

\* the guard of every send: ws.readyState === WebSocket.OPEN
CanSendUnlessClosed(rs) == rs # "CLOSED"
CanSendUnlessConnecting(rs) == rs # "CONNECTING"
CanSend(rs) == rs = "OPEN"

\* ws.send(message) behind its guard
SendIfOpen(log, rs, message) ==
    IF CanSend(rs) THEN Append(log, message) ELSE log

\* ws.close()
CloseSocket(rs) == IF rs \in {"CONNECTING", "OPEN"} THEN "CLOSING" ELSE rs

InitTyping ==
    /\ mounted = FALSE
    /\ mountCount = 0
    /\ wsCreated = 0
    /\ readyState = "CLOSED"
    /\ sessionIdRef = ""
    /\ sent = <<>>
    /\ input = 0
    /\ timeLeft = InitialTimeLeft
    /\ testActive = FALSE
    /\ isComplete = FALSE
    /\ analysisScore = Null
    /\ analysisBand = ""
    /\ rendered = [input |-> 0, timeLeft |-> InitialTimeLeft,
                   isActive |-> FALSE, isComplete |-> FALSE]
    /\ renderPending = FALSE
    /\ intervalOn = FALSE
    /\ lastFinal = Null
    /\ lastUpdate = Null

\* mount: the initial render and the WebSocket effect (deps [])
MountTypingTest ==
    /\ ~mounted
    /\ readyState = "CLOSED"
    /\ mountCount < MaxMounts
    /\ mounted' = TRUE
    /\ mountCount' = mountCount + 1
    /\ wsCreated' = wsCreated + 1
    /\ readyState' = "CONNECTING"
    /\ sessionIdRef' = ""
    /\ sent' = <<>>
    /\ input' = 0
    /\ timeLeft' = InitialTimeLeft
    /\ testActive' = FALSE
    /\ isComplete' = FALSE
    /\ analysisScore' = Null
    /\ analysisBand' = ""
    /\ rendered' = [input |-> 0, timeLeft |-> InitialTimeLeft,
                    isActive |-> FALSE, isComplete |-> FALSE]
    /\ renderPending' = FALSE
    /\ intervalOn' = FALSE
    /\ lastFinal' = Null
    /\ lastUpdate' = Null
    /\ UNCHANGED storageVars
    /\ UNCHANGED resultsVars
    /\ UNCHANGED trackerVars
    /\ UNCHANGED voiceVars
    /\ UNCHANGED voicePage

\* ws.onopen: logs only
WsOpen ==
    /\ readyState = "CONNECTING"
    /\ readyState' = "OPEN"
    /\ UNCHANGED <<mounted, mountCount, wsCreated, sessionIdRef, sent, input,
                   timeLeft, testActive, isComplete, analysisScore,
                   analysisBand, rendered, renderPending, intervalOn,
                   lastFinal, lastUpdate>>
    /\ UNCHANGED storageVars
    /\ UNCHANGED resultsVars
    /\ UNCHANGED trackerVars
    /\ UNCHANGED voiceVars
    /\ UNCHANGED voicePage

\* the channel fails or is closed by either side: ws.onerror and ws.onclose
\* log only
WsClosed ==
    /\ wsCreated > 0
    /\ readyState # "CLOSED"
    /\ readyState' = "CLOSED"
    /\ UNCHANGED <<mounted, mountCount, wsCreated, sessionIdRef, sent, input,
                   timeLeft, testActive, isComplete, analysisScore,
                   analysisBand, rendered, renderPending, intervalOn,
                   lastFinal, lastUpdate>>
    /\ UNCHANGED storageVars
    /\ UNCHANGED resultsVars
    /\ UNCHANGED trackerVars
    /\ UNCHANGED voiceVars
    /\ UNCHANGED voicePage

\* a handler that stores every scored message
OnMessageStoringUpdates ==
    /\ readyState \in {"OPEN", "CLOSING"}
    /\ \E data \in ServerMessages :
          /\ sessionIdRef' = IF data.type = "connected"
                             THEN data.session_id ELSE sessionIdRef
          /\ analysisScore' =
                IF ~mounted THEN analysisScore
                ELSE IF data.type = "update" THEN data.score
                ELSE IF data.type = "final" /\ data.score_0to1 # Undefined
                     THEN data.score_0to1
                ELSE analysisScore
          /\ analysisBand' =
                IF mounted /\ data.type \in {"update", "final"}
                THEN data.band ELSE analysisBand
          /\ typingAnalysis' = IF data.type \in {"update", "final"} THEN data
                               ELSE typingAnalysis
          /\ lastFinal' = IF data.type = "final" THEN data ELSE lastFinal
          /\ lastUpdate' = IF data.type = "update" THEN data ELSE lastUpdate
          /\ written' = IF data.type = "final"
                        THEN written \cup {"typingAnalysis"} ELSE written
    /\ UNCHANGED <<mounted, mountCount, wsCreated, readyState, sent, input,
                   timeLeft, testActive, isComplete, rendered, renderPending,
                   intervalOn>>
    /\ UNCHANGED <<voiceAnalysis, blinkAnalysisVoice>>
    /\ UNCHANGED resultsVars
    /\ UNCHANGED trackerVars
    /\ UNCHANGED voiceVars
    /\ UNCHANGED voicePage
\* a handler whose update branch sets the score only
OnMessageKeepingBandOnUpdate ==
    /\ readyState \in {"OPEN", "CLOSING"}
    /\ \E data \in ServerMessages :
          /\ sessionIdRef' = IF data.type = "connected"
                             THEN data.session_id ELSE sessionIdRef
          /\ analysisScore' =
                IF ~mounted THEN analysisScore
                ELSE IF data.type = "update" THEN data.score
                ELSE IF data.type = "final" /\ data.score_0to1 # Undefined
                     THEN data.score_0to1
                ELSE analysisScore
          /\ analysisBand' =
                IF mounted /\ data.type \in {"final"}
                THEN data.band ELSE analysisBand
          /\ typingAnalysis' = IF data.type = "final" THEN data
                               ELSE typingAnalysis
          /\ lastFinal' = IF data.type = "final" THEN data ELSE lastFinal
          /\ lastUpdate' = IF data.type = "update" THEN data ELSE lastUpdate
          /\ written' = IF data.type = "final"
                        THEN written \cup {"typingAnalysis"} ELSE written
    /\ UNCHANGED <<mounted, mountCount, wsCreated, readyState, sent, input,
                   timeLeft, testActive, isComplete, rendered, renderPending,
                   intervalOn>>
    /\ UNCHANGED <<voiceAnalysis, blinkAnalysisVoice>>
    /\ UNCHANGED resultsVars
    /\ UNCHANGED trackerVars
    /\ UNCHANGED voiceVars
    /\ UNCHANGED voicePage
\* ws.onmessage; the setters of an unmounted component have no effect, the
\* sessionStorage write still happens
OnMessage ==
    /\ readyState \in {"OPEN", "CLOSING"}
    /\ \E data \in ServerMessages :
          /\ sessionIdRef' = IF data.type = "connected"
                             THEN data.session_id ELSE sessionIdRef
          /\ analysisScore' =
                IF ~mounted THEN analysisScore
                ELSE IF data.type = "update" THEN data.score
                ELSE IF data.type = "final" /\ data.score_0to1 # Undefined
                     THEN data.score_0to1
                ELSE analysisScore
          /\ analysisBand' =
                IF mounted /\ data.type \in {"update", "final"}
                THEN data.band ELSE analysisBand
          /\ typingAnalysis' = IF data.type = "final" THEN data
                               ELSE typingAnalysis
          /\ lastFinal' = IF data.type = "final" THEN data ELSE lastFinal
          /\ lastUpdate' = IF data.type = "update" THEN data ELSE lastUpdate
          /\ written' = IF data.type = "final"
                        THEN written \cup {"typingAnalysis"} ELSE written
    /\ UNCHANGED <<mounted, mountCount, wsCreated, readyState, sent, input,
                   timeLeft, testActive, isComplete, rendered, renderPending,
                   intervalOn>>
    /\ UNCHANGED <<voiceAnalysis, blinkAnalysisVoice>>
    /\ UNCHANGED resultsVars
    /\ UNCHANGED trackerVars
    /\ UNCHANGED voiceVars
    /\ UNCHANGED voicePage

\* handleKeyDown / handleKeyUp of the rendered textarea (disabled once the
\* rendered isComplete is true)
KeyHandler(eventType) ==
    /\ mounted
    /\ ~rendered.isComplete
    /\ Len(sent) < MaxSent
    /\ CanSend(readyState)
    /\ sent' = SendIfOpen(sent, readyState, eventType)
    /\ UNCHANGED <<mounted, mountCount, wsCreated, readyState, sessionIdRef,
                   input, timeLeft, testActive, isComplete, analysisScore,
                   analysisBand, rendered, renderPending, intervalOn,
                   lastFinal, lastUpdate>>
    /\ UNCHANGED storageVars
    /\ UNCHANGED resultsVars
    /\ UNCHANGED trackerVars
    /\ UNCHANGED voiceVars
    /\ UNCHANGED voicePage

handleKeyDown == KeyHandler("press")

handleKeyUp == KeyHandler("release")

\* the textarea's onChange
ChangeInput ==
    /\ mounted
    /\ ~rendered.isComplete
    /\ \E len \in InputLengths :
          /\ len # input
          /\ input' = len
    /\ renderPending' = TRUE
    /\ UNCHANGED <<mounted, mountCount, wsCreated, readyState, sessionIdRef,
                   sent, timeLeft, testActive, isComplete, analysisScore,
                   analysisBand, rendered, intervalOn, lastFinal, lastUpdate>>
    /\ UNCHANGED storageVars
    /\ UNCHANGED resultsVars
    /\ UNCHANGED trackerVars
    /\ UNCHANGED voiceVars
    /\ UNCHANGED voicePage

\* an input effect that does not look at isComplete
RenderReactivating ==
    /\ mounted
    /\ renderPending
    /\ rendered' = RenderedState
    /\ intervalOn' = (testActive /\ timeLeft > 0)
    /\ IF input > 0 /\ ~testActive
       THEN testActive' = TRUE /\ renderPending' = TRUE
       ELSE testActive' = testActive /\ renderPending' = FALSE
    /\ UNCHANGED <<mounted, mountCount, wsCreated, readyState, sessionIdRef,
                   sent, input, timeLeft, isComplete, analysisScore,
                   analysisBand, lastFinal, lastUpdate>>
    /\ UNCHANGED storageVars
    /\ UNCHANGED resultsVars
    /\ UNCHANGED trackerVars
    /\ UNCHANGED voiceVars
    /\ UNCHANGED voicePage
\* a render with its effects: the timer effect (deps [isActive, timeLeft])
\* and the input effect
Render ==
    /\ mounted
    /\ renderPending
    /\ rendered' = RenderedState
    /\ intervalOn' = (testActive /\ timeLeft > 0)
    /\ IF input > 0 /\ ~testActive /\ ~isComplete
       THEN testActive' = TRUE /\ renderPending' = TRUE
       ELSE testActive' = testActive /\ renderPending' = FALSE
    /\ UNCHANGED <<mounted, mountCount, wsCreated, readyState, sessionIdRef,
                   sent, input, timeLeft, isComplete, analysisScore,
                   analysisBand, lastFinal, lastUpdate>>
    /\ UNCHANGED storageVars
    /\ UNCHANGED resultsVars
    /\ UNCHANGED trackerVars
    /\ UNCHANGED voiceVars
    /\ UNCHANGED voicePage

\* an updater that ends the test one second early
TimerTickEndingEarly ==
    /\ mounted
    /\ intervalOn
    /\ ~renderPending
    /\ IF timeLeft <= 2
       THEN /\ testActive' = FALSE
            /\ isComplete' = TRUE
            /\ sent' = SendIfOpen(sent, readyState, "end")
            /\ timeLeft' = 0
       ELSE /\ timeLeft' = timeLeft - 1
            /\ UNCHANGED <<testActive, isComplete, sent>>
    /\ renderPending' = TRUE
    /\ UNCHANGED <<mounted, mountCount, wsCreated, readyState, sessionIdRef,
                   input, analysisScore, analysisBand, rendered, intervalOn,
                   lastFinal, lastUpdate>>
    /\ UNCHANGED storageVars
    /\ UNCHANGED resultsVars
    /\ UNCHANGED trackerVars
    /\ UNCHANGED voiceVars
    /\ UNCHANGED voicePage
\* the interval callback of the timer effect: setTimeLeft(updater)
TimerTick ==
    /\ mounted
    /\ intervalOn
    /\ ~renderPending
    /\ IF timeLeft <= 1
       THEN /\ testActive' = FALSE
            /\ isComplete' = TRUE
            /\ sent' = SendIfOpen(sent, readyState, "end")
            /\ timeLeft' = 0
       ELSE /\ timeLeft' = timeLeft - 1
            /\ UNCHANGED <<testActive, isComplete, sent>>
    /\ renderPending' = TRUE
    /\ UNCHANGED <<mounted, mountCount, wsCreated, readyState, sessionIdRef,
                   input, analysisScore, analysisBand, rendered, intervalOn,
                   lastFinal, lastUpdate>>
    /\ UNCHANGED storageVars
    /\ UNCHANGED resultsVars
    /\ UNCHANGED trackerVars
    /\ UNCHANGED voiceVars
    /\ UNCHANGED voicePage

\* unmount: the cleanups of the WebSocket effect and of the timer effect
UnmountTypingTest ==
    /\ mounted
    /\ mounted' = FALSE
    /\ sent' = SendIfOpen(sent, readyState, "end")
    /\ readyState' = CloseSocket(readyState)
    /\ intervalOn' = FALSE
    /\ renderPending' = FALSE
    /\ UNCHANGED <<mountCount, wsCreated, sessionIdRef, input, timeLeft,
                   testActive, isComplete, analysisScore, analysisBand,
                   rendered, lastFinal, lastUpdate>>
    /\ UNCHANGED storageVars
    /\ UNCHANGED resultsVars
    /\ UNCHANGED trackerVars
    /\ UNCHANGED voiceVars
    /\ UNCHANGED voicePage

NextTyping ==
    \/ MountTypingTest
    \/ WsOpen
    \/ WsClosed
    \/ OnMessage
    \/ handleKeyDown
    \/ handleKeyUp
    \/ ChangeInput
    \/ Render
    \/ TimerTick
    \/ UnmountTypingTest

-----------------------------------------------------------------------------
Init ==
    /\ typingAnalysis = Null
    /\ voiceAnalysis = Null
    /\ blinkAnalysisVoice = Null
    /\ written = {}
    /\ page = "test"
    /\ typingResults = Null
    /\ voiceResults = Null
    /\ parsedVoiceAnalysis = Null
    /\ overallRisk = InitialOverallRisk
    /\ riskCategory = InitialRiskCategory
    /\ lastCall = Null
    /\ InitTracker
    /\ InitTyping
    /\ voicePage = InitialVoicePage
    /\ InitVoice

\* TypingTest ws.onmessage, `final` branch: stores the message
StoreTypingAnalysis ==
    /\ page = "test"
    /\ \E data \in TypingData : typingAnalysis' = data
    /\ written' = written \cup {"typingAnalysis"}
    /\ UNCHANGED <<voiceAnalysis, blinkAnalysisVoice>>
    /\ UNCHANGED resultsVars
    /\ UNCHANGED trackerVars
    /\ UNCHANGED typingVars
    /\ UNCHANGED voicePage
    /\ UNCHANGED voiceVars

\* analyzeVoice, success path: stores the analysis result
StoreVoiceAnalysis ==
    /\ page = "test"
    /\ \E result \in VoiceData : voiceAnalysis' = result
    /\ written' = written \cup {"voiceAnalysis"}
    /\ UNCHANGED <<typingAnalysis, blinkAnalysisVoice>>
    /\ UNCHANGED resultsVars
    /\ UNCHANGED trackerVars
    /\ UNCHANGED typingVars
    /\ UNCHANGED voicePage
    /\ UNCHANGED voiceVars

\* VoiceTest.stopRecording: stores the blink data returned by stopTracking
StoreBlinkAnalysisVoice ==
    /\ page = "test"
    /\ \E stored \in BlinkStored : blinkAnalysisVoice' = stored
    /\ written' = written \cup {"blinkAnalysisVoice"}
    /\ UNCHANGED <<typingAnalysis, voiceAnalysis>>
    /\ UNCHANGED resultsVars
    /\ UNCHANGED trackerVars
    /\ UNCHANGED typingVars
    /\ UNCHANGED voicePage
    /\ UNCHANGED voiceVars

\* ResultsPage's first render and its load effect (Results.tsx 28-69)
LoadResults ==
    /\ page' = "results"
    /\ typingResults' = typingAnalysis
    /\ voiceResults' = voiceAnalysis
    /\ parsedVoiceAnalysis' = LoadParsedVoice(voiceAnalysis)
    /\ LET r == calculateOverallRisk(typingAnalysis, voiceAnalysis,
                                     InitialOverallRisk, InitialRiskCategory)
       IN  /\ overallRisk' = r.risk
           /\ riskCategory' = r.category
    /\ lastCall' = [typing |-> typingAnalysis, voice |-> voiceAnalysis]

\* ResultsPage mounts: fresh state, then the load effect runs once
MountResults ==
    /\ page = "test"
    /\ LoadResults
    /\ UNCHANGED storageVars
    /\ UNCHANGED trackerVars
    /\ UNCHANGED typingVars
    /\ UNCHANGED voicePage
    /\ UNCHANGED voiceVars

\* navigating away unmounts the page and drops its state
LeaveResults ==
    /\ page = "results"
    /\ page' = "test"
    /\ typingResults' = Null
    /\ voiceResults' = Null
    /\ parsedVoiceAnalysis' = Null
    /\ overallRisk' = InitialOverallRisk
    /\ riskCategory' = InitialRiskCategory
    /\ lastCall' = Null
    /\ UNCHANGED storageVars
    /\ UNCHANGED trackerVars
    /\ UNCHANGED typingVars
    /\ UNCHANGED voicePage
    /\ UNCHANGED voiceVars

vars == <<typingAnalysis, voiceAnalysis, blinkAnalysisVoice, written, page,
          typingResults, voiceResults, parsedVoiceAnalysis, overallRisk,
          riskCategory, lastCall, isActive, isTracking, blinkCount,
          effectPending, cleanupTracking, cameras, cameraRef, faceMeshRef,
          callbackActive, blinkData, consecutiveClosedFrames, now,
          inFlight, lastFrame, posted,
          mounted, mountCount, wsCreated, readyState, sessionIdRef, sent,
          input, timeLeft, testActive, isComplete, analysisScore,
          analysisBand, rendered, renderPending, intervalOn, lastFinal,
          lastUpdate,
          voiceMounted, streams, recorderRef, recordingTime, audioBlob,
          isAnalyzing, toast, navigateTimer, voicePage>>

Next ==
    \/ StoreTypingAnalysis
    \/ StoreVoiceAnalysis
    \/ StoreBlinkAnalysisVoice
    \/ MountResults
    \/ LeaveResults

Spec == Init /\ [][Next]_vars

SpecBlink == Init /\ [][NextBlink]_vars

SpecTyping == Init /\ [][NextTyping]_vars

\* the typing test's timer on its own: typing is the change of the input,
\* the channel opens and closes, no message is exchanged
NextTimer ==
    \/ MountTypingTest
    \/ WsOpen
    \/ WsClosed
    \/ ChangeInput
    \/ Render
    \/ TimerTick
    \/ UnmountTypingTest

\* React commits a pending render, and the one-second interval fires however
\* often a render is pending in between
SpecTypingFair ==
    /\ Init
    /\ [][NextTimer]_vars
    /\ WF_vars(Render)
    /\ SF_vars(TimerTick)

-----------------------------------------------------------------------------
(* A second recording: the state left by an earlier tracking session that  *)
(* was stopped (samples, a blink, a closed run in progress), from which    *)
(* the tracker is started again.  `cameras` lists the cameras created from *)
(* here on; the stopped camera of the earlier session is not listed.       *)

StoppedBlinkData ==
    [blinkCount |-> 1, duration |-> 0, blinkTimestamps |-> <<0>>,
     earValues |-> <<Rat(0, 1), Rat(0, 1), Rat(1, 2), Rat(0, 1)>>,
     startTime |-> 0]

InitRestart ==
    /\ typingAnalysis = Null
    /\ voiceAnalysis = Null
    /\ blinkAnalysisVoice = [blinkCount |-> 1, duration |-> 0]
    /\ written = {"blinkAnalysisVoice"}
    /\ page = "test"
    /\ typingResults = Null
    /\ voiceResults = Null
    /\ parsedVoiceAnalysis = Null
    /\ overallRisk = InitialOverallRisk
    /\ riskCategory = InitialRiskCategory
    /\ lastCall = Null
    /\ isActive = FALSE
    /\ isTracking = FALSE
    /\ blinkCount = 1
    /\ effectPending = FALSE
    /\ cleanupTracking = FALSE
    /\ cameras = <<>>
    /\ cameraRef = 0
    /\ faceMeshRef = FALSE
    /\ callbackActive = TRUE
    /\ blinkData = StoppedBlinkData
    /\ consecutiveClosedFrames = 1
    /\ now = 0
    /\ inFlight \in BOOLEAN
    /\ lastFrame = "face"
    /\ posted = 1
    /\ InitTyping
    /\ voicePage = InitialVoicePage
    /\ InitVoice

SpecRestart == InitRestart /\ [][NextBlink]_vars

-----------------------------------------------------------------------------
(* The voice test as a whole (VoiceTest component): recording, analysis of *)
(* the recorded audio, and the navigation to the results page.             *)

\* the bodies /api/voice/analyze answers with on success
AnalysisResponses ==
    {v \in VoiceData : v.raw = "plain" /\ v.body.confidence = R1}

\* the Analyze button (shown when there is an audioBlob and no analysis
\* runs): `if (!audioBlob) return; setIsAnalyzing(true)` and the fetch
AnalyzeVoice ==
    /\ voiceMounted
    /\ audioBlob /\ ~isAnalyzing
    /\ isAnalyzing' = TRUE
    /\ UNCHANGED <<voiceMounted, streams, recorderRef, recordingTime,
                   audioBlob, toast, navigateTimer>>
    /\ UNCHANGED trackerVars
    /\ UNCHANGED storageVars
    /\ UNCHANGED resultsVars
    /\ UNCHANGED typingVars
    /\ UNCHANGED voicePage

\* the failure path of analyzeVoice storing a result all the same
AnalysisFailedStoringDefault ==
    /\ isAnalyzing
    /\ isAnalyzing' = FALSE
    /\ toast' = "analysis-error"
    /\ voiceAnalysis' = [raw |-> "missing", body |-> Undefined]
    /\ written' = written \cup {"voiceAnalysis"}
    /\ UNCHANGED <<voiceMounted, streams, recorderRef, recordingTime,
                   audioBlob, navigateTimer>>
    /\ UNCHANGED <<typingAnalysis, blinkAnalysisVoice>>
    /\ UNCHANGED trackerVars
    /\ UNCHANGED resultsVars
    /\ UNCHANGED typingVars
    /\ UNCHANGED voicePage
\* analyzeVoice, failure path: the fetch rejects, the response is not ok
\* or its body is not JSON; the catch block shows the toast and the finally
\* block clears isAnalyzing
AnalysisFailed ==
    /\ isAnalyzing
    /\ isAnalyzing' = FALSE
    /\ toast' = "analysis-error"
    /\ UNCHANGED <<voiceMounted, streams, recorderRef, recordingTime,
                   audioBlob, navigateTimer>>
    /\ UNCHANGED trackerVars
    /\ UNCHANGED storageVars
    /\ UNCHANGED resultsVars
    /\ UNCHANGED typingVars
    /\ UNCHANGED voicePage

\* analyzeVoice, success path: the result is stored, the toast shown, the
\* navigation timer set, and the finally block clears isAnalyzing
AnalysisSucceeded ==
    /\ isAnalyzing
    /\ isAnalyzing' = FALSE
    /\ \E result \in AnalysisResponses : voiceAnalysis' = result
    /\ written' = written \cup {"voiceAnalysis"}
    /\ toast' = "analysis-complete"
    /\ navigateTimer' = TRUE
    /\ UNCHANGED <<voiceMounted, streams, recorderRef, recordingTime,
                   audioBlob>>
    /\ UNCHANGED <<typingAnalysis, blinkAnalysisVoice>>
    /\ UNCHANGED trackerVars
    /\ UNCHANGED resultsVars
    /\ UNCHANGED typingVars
    /\ UNCHANGED voicePage

\* the component unmounts: the only cleanup registered is the one of the
\* hook's lifecycle effect; VoiceTest itself registers none
UnmountCleanup ==
    /\ voiceMounted' = FALSE
    /\ IF cleanupTracking THEN SetTracker(stopTracking(Tracker))
       ELSE UNCHANGED <<isTracking, blinkCount, cameras, cameraRef,
                        faceMeshRef, callbackActive, blinkData,
                        consecutiveClosedFrames, posted>>
    /\ effectPending' = FALSE
    /\ cleanupTracking' = FALSE
    /\ UNCHANGED <<isActive, now, inFlight, lastFrame>>
    /\ UNCHANGED <<streams, recorderRef, recordingTime, audioBlob,
                   isAnalyzing, toast>>

\* the navigation timer fires: navigate('/results')
NavigateToResults ==
    /\ navigateTimer
    /\ page = "test"
    /\ navigateTimer' = FALSE
    /\ IF voiceMounted THEN UnmountCleanup
       ELSE /\ UNCHANGED trackerVars
            /\ UNCHANGED <<voiceMounted, streams, recorderRef, recordingTime,
                           audioBlob, isAnalyzing, toast>>
    /\ LoadResults
    /\ UNCHANGED storageVars
    /\ UNCHANGED typingVars
    /\ UNCHANGED voicePage

\* the user leaves the voice test for another route
UnmountVoiceTest ==
    /\ voiceMounted
    /\ page = "test"
    /\ UnmountCleanup
    /\ UNCHANGED navigateTimer
    /\ UNCHANGED storageVars
    /\ UNCHANGED resultsVars
    /\ UNCHANGED typingVars
    /\ UNCHANGED voicePage

NextVoice ==
    \/ StartRecording
    \/ MicGranted
    \/ MicDenied
    \/ RecorderFailed
    \/ StopRecording
    \/ RecordingTick
    \/ RecorderStopped
    \/ Retry
    \/ AnalyzeVoice
    \/ AnalysisSucceeded
    \/ AnalysisFailed
    \/ NavigateToResults
    \/ UnmountVoiceTest
    \/ LifecycleEffect
    \/ CameraStarted
    \/ CameraFailed

SpecVoice == Init /\ [][NextVoice]_vars

\* microphone requests one click after another may leave pending
MaxPending == 2

\* a further click on Start while getUserMedia is still pending: the button
\* is shown until setIsRecording(true), so startRecording runs again
StartRecordingWhilePending ==
    /\ voiceMounted
    /\ ~isActive /\ ~audioBlob
    /\ \E i \in 1..Len(streams) : streams[i] = "requested"
    /\ Len(streams) < MaxPending
    /\ streams' = Append(streams, "requested")
    /\ UNCHANGED <<voiceMounted, recorderRef, recordingTime, audioBlob,
                   isAnalyzing, toast, navigateTimer>>
    /\ UNCHANGED trackerVars
    /\ UNCHANGED storageVars
    /\ UNCHANGED resultsVars
    /\ UNCHANGED typingVars
    /\ UNCHANGED voicePage

\* the microphone and the recorder under start, stop and retry clicks
NextMicrophone ==
    \/ StartRecording
    \/ StartRecordingWhilePending
    \/ MicGranted
    \/ MicDenied
    \/ StopRecording
    \/ RecordingTick
    \/ RecorderStopped
    \/ Retry

SpecMicrophone == Init /\ [][NextMicrophone]_vars

\* the browser runs due interval callbacks, media events, promise
\* continuations and React effects; nothing obliges the user to act
SpecVoiceFair ==
    /\ SpecVoice
    /\ WF_vars(RecordingTick)
    /\ WF_vars(RecorderStopped)
    /\ WF_vars(MicGranted \/ MicDenied \/ RecorderFailed)
    /\ WF_vars(LifecycleEffect)
    /\ WF_vars(CameraStarted \/ CameraFailed)

-----------------------------------------------------------------------------
(* Fusion with repeated calls: calculateOverallRisk invoked again on a     *)
(* mounted page with whatever score set exists at call time.               *)

InitFusion ==
    /\ typingAnalysis = Null
    /\ voiceAnalysis = Null
    /\ blinkAnalysisVoice = Null
    /\ written = {}
    /\ page = "results"
    /\ typingResults = Null
    /\ voiceResults = Null
    /\ parsedVoiceAnalysis = Null
    /\ overallRisk = InitialOverallRisk
    /\ riskCategory = InitialRiskCategory
    /\ lastCall = Null
    /\ InitTracker
    /\ InitTyping
    /\ voicePage = InitialVoicePage
    /\ InitVoice

\* the typing argument of a call; the function reads score_0to1 only, so one
\* band stands for all
FusionTypingInputs == {m \in TypingData : m.band = "LOW"} \cup {Null}

CallCalculateOverallRisk ==
    /\ page = "results"
    /\ \E typing \in FusionTypingInputs, voice \in VoiceData \cup {Null} :
          /\ LET r == calculateOverallRisk(typing, voice, overallRisk, riskCategory)
             IN  /\ overallRisk' = r.risk
                 /\ riskCategory' = r.category
          /\ lastCall' = [typing |-> typing, voice |-> voice]
    /\ UNCHANGED <<page, typingResults, voiceResults, parsedVoiceAnalysis>>
    /\ UNCHANGED storageVars
    /\ UNCHANGED trackerVars
    /\ UNCHANGED typingVars
    /\ UNCHANGED voicePage
    /\ UNCHANGED voiceVars

NextFusion == CallCalculateOverallRisk

SpecFusion == InitFusion /\ [][NextFusion]_vars

-----------------------------------------------------------------------------
(* The modality scores of the design, read off the stored results.         *)

\* typing: the scorer's [0,1] score, confidence 1
TypingScores ==
    IF typingAnalysis # Null /\ typingAnalysis.score_0to1 # Undefined
    THEN {[modality |-> "typing", value |-> typingAnalysis.score_0to1,
           confidence |-> R1]}
    ELSE {}

\* the stored voice result carries a readable risk score
VoiceParsable(voice) ==
    /\ voice # Null
    /\ voice.raw \in {"fenced", "plain", "object"}
    /\ voice.body.overall_risk_score # Undefined

\* voice: the annotator's score and confidence, passed through
VoiceScores ==
    IF VoiceParsable(voiceAnalysis)
    THEN {[modality |-> "voice", value |-> voiceAnalysis.body.overall_risk_score,
           confidence |-> voiceAnalysis.body.confidence]}
    ELSE {}

\* blink: the normalised rate of a completed session
BlinkScores ==
    IF blinkAnalysisVoice # Null /\ blinkAnalysisVoice.duration > 0
    THEN {[modality |-> "blink",
           value |-> BlinkRisk(BlinkRate(blinkAnalysisVoice.blinkCount,
                                         blinkAnalysisVoice.duration)),
           confidence |-> BlinkConfidence(blinkAnalysisVoice.duration)]}
    ELSE {}

ModalityScores == TypingScores \cup VoiceScores \cup BlinkScores

\* sums over a set of modality scores: wv = sum(value*confidence),
\* c = sum(confidence), v = sum(value)
RECURSIVE ScoreSums(_)
ScoreSums(S) ==
    IF S = {} THEN [wv |-> R0, c |-> R0, v |-> R0]
    ELSE LET m    == CHOOSE y \in S : TRUE
             rest == ScoreSums(S \ {m})
         IN  [wv |-> RatAdd(rest.wv, RatMul(m.value, m.confidence)),
              c  |-> RatAdd(rest.c, m.confidence),
              v  |-> RatAdd(rest.v, m.value)]

\* sum(value*confidence)/sum(confidence), when some confidence is non-zero
ConfidenceWeightedMean(S) == RatDiv(ScoreSums(S).wv, ScoreSums(S).c)

\* the plain mean of the values of a non-empty set of scores
MeanValue(S) == RatDivInt(ScoreSums(S).v, Cardinality(S))

\* the band thresholds as the design states them
BandOf(r) ==
    CASE RatLT(r, Rat(3, 10)) -> "low"
      [] RatLE(Rat(3, 10), r) /\ RatLT(r, Rat(5, 10)) -> "moderate"
      [] RatLE(Rat(5, 10), r) /\ RatLT(r, Rat(7, 10)) -> "elevated"
      [] RatLE(Rat(7, 10), r) -> "high"

OnResults == page = "results"

-----------------------------------------------------------------------------
(* Blink detection.                                                        *)

\* the last sample of e is at or above the threshold and the CONSEC_FRAMES
\* samples right before it are all below it
OpenAfterClosedRun(e) ==
    /\ Len(e) >= CONSEC_FRAMES + 1
    /\ RatLE(Rat(1, 4), e[Len(e)])
    /\ \A j \in 1..CONSEC_FRAMES : RatLT(e[Len(e) - j], Rat(1, 4))

FrameProcessed ==
    Len(blinkData'.earValues) = Len(blinkData.earValues) + 1

BlinkEmitted ==
    /\ blinkData'.blinkCount = blinkData.blinkCount + 1
    /\ blinkData'.blinkTimestamps = Append(blinkData.blinkTimestamps, now)
    /\ blinkCount' = blinkData'.blinkCount

NoBlinkEmitted ==
    /\ blinkData'.blinkCount = blinkData.blinkCount
    /\ blinkData'.blinkTimestamps = blinkData.blinkTimestamps
    /\ blinkCount' = blinkCount

\* C1: on every processed frame a blink is emitted if and only if the frame's
\* avgEAR is at or above the threshold and the frames right before it form a
\* closed run of at least CONSEC_FRAMES samples; a shorter run never emits,
\* a run of any length emits once, and nothing but a processed frame emits.
C1_BlinkIff ==
    [][ /\ FrameProcessed =>
              IF OpenAfterClosedRun(blinkData'.earValues)
              THEN BlinkEmitted ELSE NoBlinkEmitted
        /\ blinkData'.blinkCount > blinkData.blinkCount => FrameProcessed
      ]_vars

\* an open sample, then a closed run of two ended by a sample exactly on the
\* threshold (one blink)
C1_Witness ==
    /\ blinkData.earValues = << Rat(1, 2), Rat(0, 1), Rat(0, 1), Rat(1, 4) >>
    /\ blinkData.blinkCount = 1
    /\ blinkCount = 1

\* C2: on the Results page, when at least one available modality score has a
\* non-zero confidence, overallRisk is the confidence-weighted mean
\* sum(value*confidence)/sum(confidence) of the available scores.
C2_WeightedMean ==
    (OnResults /\ \E m \in ModalityScores : m.confidence # R0)
        => overallRisk = ConfidenceWeightedMean(ModalityScores)

\* C3: every defined overallRisk r has exactly the band of its interval:
\* low iff r < 0.3, moderate iff 0.3 <= r < 0.5, elevated iff 0.5 <= r < 0.7,
\* high iff r >= 0.7.
C3_BandThresholds ==
    (OnResults /\ riskCategory # "unknown") =>
        /\ riskCategory \in {"low", "moderate", "elevated", "high"}
        /\ (riskCategory = "low") <=> RatLT(overallRisk, Rat(3, 10))
        /\ (riskCategory = "moderate") <=>
              (RatLE(Rat(3, 10), overallRisk) /\ RatLT(overallRisk, Rat(5, 10)))
        /\ (riskCategory = "elevated") <=>
              (RatLE(Rat(5, 10), overallRisk) /\ RatLT(overallRisk, Rat(7, 10)))
        /\ (riskCategory = "high") <=> RatLE(Rat(7, 10), overallRisk)

\* a fused risk that sits exactly on the first threshold
C3_Witness ==
    /\ OnResults
    /\ overallRisk = Rat(3, 10)
    /\ riskCategory = "moderate"
    /\ Cardinality(TypingScores \cup VoiceScores) = 2

\* C4: with neither a typing score nor a parsable voice score stored, the
\* Results page reports `unknown` and assigns no numeric band.
C4_NoModalityUnknown ==
    (OnResults /\ TypingScores = {} /\ VoiceScores = {})
        => riskCategory = "unknown"

\* a stored voice result whose response cannot be parsed, and no typing score
C4_Witness ==
    /\ OnResults
    /\ TypingScores = {}
    /\ voiceAnalysis # Null
    /\ voiceAnalysis.raw = "garbage"
    /\ riskCategory = "unknown"

\* C5: when every available modality score has confidence 0, the fusion
\* result is `unknown`.
C5_ZeroConfidenceUnknown ==
    (OnResults /\ ModalityScores # {}
       /\ \A m \in ModalityScores : m.confidence = R0)
        => riskCategory = "unknown"

\* all orderings of a sequence of at most three elements
Orderings(s) ==
    { p \in [1..Len(s) -> 1..Len(s)] : \A i, j \in 1..Len(s) : i # j => p[i] # p[j] }
Reorder(s, p) == [i \in 1..Len(s) |-> s[p[i]]]

\* C6: supplying the same scores in any order gives the same overallRisk and
\* band.
C6_OrderIndependent ==
    (OnResults /\ lastCall # Null) =>
        LET risks == CollectRisks(lastCall.typing, lastCall.voice)
        IN  Len(risks) > 0 =>
              \A p \in Orderings(risks) :
                  /\ AvgRisk(Reorder(risks, p)) = overallRisk
                  /\ RiskBand(AvgRisk(Reorder(risks, p))) = riskCategory

\* two different scores were fused
C6_Witness ==
    /\ OnResults
    /\ lastCall # Null
    /\ Len(CollectRisks(lastCall.typing, lastCall.voice)) = 2
    /\ CollectRisks(lastCall.typing, lastCall.voice)[1]
         # CollectRisks(lastCall.typing, lastCall.voice)[2]
    /\ riskCategory # "unknown"

\* C7: when exactly one modality score v with confidence 1 is available and
\* the other two are absent, overallRisk is v and the band is the band of v.
C7_SingleModality ==
    (OnResults /\ Cardinality(ModalityScores) = 1
       /\ \A m \in ModalityScores : m.confidence = R1)
        => \A m \in ModalityScores :
              /\ overallRisk = m.value
              /\ riskCategory = BandOf(m.value)

\* C8: when blink, typing and voice scores are all available with
\* confidence 1, overallRisk is the mean of the three values.
C8_ThreeModalities ==
    (OnResults /\ Cardinality(ModalityScores) = 3
       /\ \A m \in ModalityScores : m.confidence = R1)
        => /\ overallRisk = MeanValue(ModalityScores)
           /\ riskCategory = BandOf(MeanValue(ModalityScores))

\* C9: for every stored blink count and duration > 0 the rate is
\* count/duration*60 and the risk max(0, min(1, (20-rate)/15)): in [0,1],
\* 0 from 20 blinks/min up, 1 up to 5 blinks/min, linear in between.
C9_BlinkRisk ==
    (blinkAnalysisVoice # Null /\ blinkAnalysisVoice.duration > 0) =>
        LET c    == blinkAnalysisVoice.blinkCount
            d    == blinkAnalysisVoice.duration
            rate == BlinkRate(c, d)
            risk == BlinkRisk(rate)
        IN  /\ rate.n * d = 60 * c * rate.d
            /\ RatLE(R0, risk) /\ RatLE(risk, R1)
            /\ RatLE(Rat(20, 1), rate) => risk = R0
            /\ RatLE(rate, Rat(5, 1)) => risk = R1
            /\ (RatLT(Rat(5, 1), rate) /\ RatLT(rate, Rat(20, 1)))
                  => RatMul(risk, Rat(15, 1)) = RatSub(Rat(20, 1), rate)
            /\ (c = 3 /\ d = 12) => (rate = Rat(15, 1) /\ risk = Rat(1, 3))

\* 3 blinks over 12 seconds were stored
C9_Witness ==
    /\ blinkAnalysisVoice # Null
    /\ blinkAnalysisVoice.blinkCount = 3
    /\ blinkAnalysisVoice.duration = 12

\* C10: after any sequence of calls the result depends only on the score set
\* of the last call; an empty set gives `unknown`.
C10_PureReevaluation ==
    (OnResults /\ lastCall # Null) =>
        LET S == (IF lastCall.typing # Null /\ lastCall.typing.score_0to1 # Undefined
                  THEN {[modality |-> "typing", value |-> lastCall.typing.score_0to1,
                         confidence |-> R1]}
                  ELSE {})
                 \cup
                 (IF VoiceParsable(lastCall.voice)
                  THEN {[modality |-> "voice",
                         value |-> lastCall.voice.body.overall_risk_score,
                         confidence |-> R1]}
                  ELSE {})
        IN  IF S = {}
            THEN riskCategory = "unknown"
            ELSE /\ overallRisk = MeanValue(S)
                 /\ riskCategory = BandOf(MeanValue(S))

-----------------------------------------------------------------------------
(* Keystroke session protocol: claim-side definitions.                     *)

\* the positions of `end` in the messages sent on the current WebSocket
EndPositions == {i \in 1..Len(sent) : sent[i] = "end"}

\* the step on which the timer reaches zero
TimerExpires == timeLeft = 1 /\ timeLeft' = 0

\* the step on which the component unmounts
Unmounts == mounted /\ ~mounted'

\* C11: once a `final` has been received, the displayed score and band are
\* those of that `final` (each field the message carries), whatever `update`
\* messages arrived before or after it.
C11_FinalAuthoritative ==
    (mounted /\ lastFinal # Null) =>
        /\ lastFinal.score_0to1 # Undefined
              => analysisScore = lastFinal.score_0to1
        /\ analysisBand = lastFinal.band

\* C12: when the channel is closed and no `final` was received on it, the
\* session's score is unknown: no score and no band of an `update` is kept.
C12_ChannelLossUnknown ==
    (mounted /\ readyState = "CLOSED" /\ lastFinal = Null) =>
        (analysisScore = Null /\ analysisBand = "")

\* C13: no press or release message follows an `end` on the same channel.
C13_NoKeyEventAfterEnd ==
    \A i \in EndPositions :
        \A j \in (i + 1)..Len(sent) : sent[j] \notin {"press", "release"}

\* C14: at most one `end` is sent on a channel, whether the timer expired,
\* the component unmounted, or both in that order.
C14_SingleEnd == Cardinality(EndPositions) <= 1

\* C15: when the timer expires or the component unmounts while the channel
\* is not open, nothing is sent, and the expiry still completes the test.
C15_EndOnNonOpenChannel ==
    [][ (readyState # "OPEN" /\ (TimerExpires \/ Unmounts)) =>
           /\ sent' = sent
           /\ TimerExpires => (isComplete' /\ ~testActive')
      ]_vars

\* C15 witness: the test completed by timer expiry on a channel that was
\* not open, and nothing was sent.
C15_Witness ==
    mounted /\ isComplete /\ timeLeft = 0 /\ sent = <<>> /\ readyState # "OPEN"

\* C16: one WebSocket is constructed per mount, and once the channel of a
\* mounted test is closed no WebSocket is constructed and nothing is sent.
C16_NoReconnect ==
    /\ [](wsCreated = mountCount)
    /\ [][ (mounted /\ readyState = "CLOSED") =>
              (wsCreated' = wsCreated /\ sent' = sent /\ readyState' = "CLOSED")
         ]_vars

\* C16 witness: the channel closed after a key event was sent, and the test
\* then ran to completion on the closed channel.
C16_Witness ==
    /\ mounted /\ readyState = "CLOSED" /\ isComplete
    /\ sent # <<>> /\ EndPositions = {}
    /\ wsCreated = 1

-----------------------------------------------------------------------------
(* Frame handling and stop of the blink tracker: claim-side definitions.   *)

\* the step on which the results of a frame are handed to onResults
FrameDelivered == inFlight /\ ~inFlight' /\ lastFrame' # "dropped"

\* no EAR sample appended, no blink emitted, closed-frame counter kept
SamplesUnchanged ==
    /\ blinkData' = blinkData
    /\ blinkCount' = blinkCount
    /\ consecutiveClosedFrames' = consecutiveClosedFrames

\* C17: a frame in which no face is detected leaves earSamples, blinkEvents,
\* blinkCount and consecutiveClosedFrames unchanged.
C17_NoFaceFrame ==
    [][ (FrameDelivered /\ lastFrame' = "no-face") => SamplesUnchanged ]_vars

\* C17 witness: a no-face frame arrived in the middle of a closed run and
\* the run is still counted.
C17_Witness ==
    /\ lastFrame = "no-face"
    /\ consecutiveClosedFrames = 1
    /\ Len(blinkData.earValues) = 2

\* C18: a frame whose landmark set is corrupt (eye indices missing) is
\* skipped like a no-face frame: no sample, counter kept, no blink.
C18_CorruptLandmarks ==
    [][ (FrameDelivered /\ lastFrame' = "corrupt") => SamplesUnchanged ]_vars

\* C19: once stopTracking has run and tracking was not started again, the
\* results of a frame that was in flight change no sample, blink or counter.
C19_LateFrameDiscarded ==
    [][ (FrameDelivered /\ ~faceMeshRef) => SamplesUnchanged ]_vars

\* C20: over one recording the duration is computed and the summary posted
\* at most once, however many times stop is requested, and a later stop
\* leaves the finalised duration as it is.
C20_StopFinalizesOnce ==
    /\ [](posted <= 1)
    /\ [][ (posted >= 1 /\ posted' > posted) =>
              blinkData'.duration = blinkData.duration ]_vars

-----------------------------------------------------------------------------
(* Blink session invariants and sensor release: claim-side definitions.    *)

\* stopTracking ran and tracking was not started again
Finalized == posted >= 1 /\ ~faceMeshRef

\* C21: in every state the number of blink timestamps, the session's
\* blinkCount and the displayed count are at most the number of EAR samples.
C21_BlinksWithinSamples ==
    /\ Len(blinkData.blinkTimestamps) <= Len(blinkData.earValues)
    /\ blinkData.blinkCount <= Len(blinkData.earValues)
    /\ blinkCount <= Len(blinkData.earValues)

\* C21 witness: the shortest session with a blink, two closed samples and
\* the open sample that ends the run.
C21_Witness ==
    /\ blinkData.blinkCount = 1
    /\ Len(blinkData.blinkTimestamps) = 1
    /\ Len(blinkData.earValues) = CONSEC_FRAMES + 1

\* C22: once the session is finalized by stop, every blink timestamp lies in
\* [startTime, startTime + duration], in that state and every later one.
C22_TimestampsWithinSession ==
    Finalized =>
        \A i \in 1..Len(blinkData.blinkTimestamps) :
            /\ blinkData.startTime <= blinkData.blinkTimestamps[i]
            /\ blinkData.blinkTimestamps[i]
                  <= blinkData.startTime + blinkData.duration

\* C25: when recording is off, no effect is pending and no camera is still
\* starting, no camera is running.
C25_CameraReleased ==
    (~isActive /\ ~effectPending
       /\ \A i \in 1..Len(cameras) : cameras[i] # "starting")
    => \A i \in 1..Len(cameras) : cameras[i] # "running"

\* the step on which startTracking runs
TrackingStarts == Len(cameras') = Len(cameras) + 1

\* C23: every start of tracking begins a fresh session: no samples, no
\* blinks, no closed run, displayed count 0 and startTime the start instant.
C23_FreshSession ==
    [][ TrackingStarts =>
           /\ blinkData' = [FreshBlinkData EXCEPT !.startTime = now]
           /\ consecutiveClosedFrames' = 0
           /\ blinkCount' = 0
      ]_vars

\* C23 witness: tracking was started again after a session that had left
\* samples, a blink and a closed run, and the new session is empty.
C23_Witness ==
    /\ Len(cameras) = 1
    /\ faceMeshRef
    /\ blinkAnalysisVoice = [blinkCount |-> 1, duration |-> 0]
    /\ blinkData = [FreshBlinkData EXCEPT !.startTime = 1]
    /\ consecutiveClosedFrames = 0
    /\ blinkCount = 0

-----------------------------------------------------------------------------
(* Fusion as documented for the Results page                              *)
(* (BLINK_DETECTION_ALGORITHM.md, Results Page Enhancement).               *)

\* the score of one modality among the available ones
ScoreOf(S, modality) == (CHOOSE m \in S : m.modality = modality).value

\* 0.30 * typing + 0.35 * voice + 0.35 * blink
DocumentedRisk(S) ==
    RatAdd(RatMul(Rat(30, 100), ScoreOf(S, "typing")),
           RatAdd(RatMul(Rat(35, 100), ScoreOf(S, "voice")),
                  RatMul(Rat(35, 100), ScoreOf(S, "blink"))))

\* C28: when typing, voice and blink results are all available, the overall
\* risk of the Results page is 0.30*typing + 0.35*voice + 0.35*blink.
C28_DocumentedWeights ==
    (OnResults /\ Cardinality(ModalityScores) = 3)
        => overallRisk = DocumentedRisk(ModalityScores)

-----------------------------------------------------------------------------
(* One assessment after another: the typing test, then the voice test,     *)
(* then the results page, in a browser session in which an earlier         *)
(* assessment has already stored its typing and voice results.             *)

\* the results an earlier assessment left in sessionStorage
EarlierTyping == [type |-> "final", score_0to1 |-> Rat(8, 10), band |-> "HIGH"]
EarlierVoice ==
    [raw |-> "plain",
     body |-> [overall_risk_score |-> Rat(8, 10), confidence |-> R1]]

\* the state in which Hero.startAssessment has just opened the typing test
\* of a further assessment
InitAssessment ==
    /\ typingAnalysis = EarlierTyping
    /\ voiceAnalysis = EarlierVoice
    /\ blinkAnalysisVoice = Null
    /\ written = {}
    /\ page = "test"
    /\ typingResults = Null
    /\ voiceResults = Null
    /\ parsedVoiceAnalysis = Null
    /\ overallRisk = InitialOverallRisk
    /\ riskCategory = InitialRiskCategory
    /\ lastCall = Null
    /\ InitTracker
    /\ InitTyping
    /\ voicePage = InitialVoicePage
    /\ voiceMounted = FALSE
    /\ streams = <<>>
    /\ recorderRef = 0
    /\ recordingTime = 0
    /\ audioBlob = FALSE
    /\ isAnalyzing = FALSE
    /\ toast = "none"
    /\ navigateTimer = FALSE

\* Hero.startAssessment, reached from the results page by way of the home
\* page: navigate('/typing-test'); sessionStorage is left as it is
StartAssessment ==
    /\ page = "results"
    /\ page' = "test"
    /\ typingResults' = Null
    /\ voiceResults' = Null
    /\ parsedVoiceAnalysis' = Null
    /\ overallRisk' = InitialOverallRisk
    /\ riskCategory' = InitialRiskCategory
    /\ lastCall' = Null
    /\ written' = {}
    /\ UNCHANGED <<typingAnalysis, voiceAnalysis, blinkAnalysisVoice>>
    /\ UNCHANGED trackerVars
    /\ UNCHANGED typingVars
    /\ UNCHANGED voicePage
    /\ UNCHANGED voiceVars

\* the typing test opens on its route
OpenTypingTest ==
    /\ page = "test"
    /\ ~voiceMounted
    /\ MountTypingTest

\* TypingTest's Next button, navigate('/voice-test'): VoiceTest mounts with
\* its initial state and a new instance of the hook
MountVoiceTest ==
    /\ page = "test"
    /\ ~mounted /\ mountCount > 0
    /\ ~voiceMounted /\ ~isAnalyzing
    /\ voiceMounted' = TRUE
    /\ recorderRef' = 0
    /\ recordingTime' = 0
    /\ audioBlob' = FALSE
    /\ toast' = "none"
    /\ isActive' = FALSE
    /\ isTracking' = FALSE
    /\ blinkCount' = 0
    /\ effectPending' = FALSE
    /\ cleanupTracking' = FALSE
    /\ cameraRef' = 0
    /\ faceMeshRef' = FALSE
    /\ callbackActive' = FALSE
    /\ blinkData' = FreshBlinkData
    /\ consecutiveClosedFrames' = 0
    /\ UNCHANGED <<streams, isAnalyzing, navigateTimer>>
    /\ UNCHANGED <<cameras, now, inFlight, lastFrame, posted>>
    /\ UNCHANGED storageVars
    /\ UNCHANGED resultsVars
    /\ UNCHANGED typingVars
    /\ UNCHANGED voicePage

\* the user opens /results from the voice test (address bar or history)
OpenResults ==
    /\ page = "test"
    /\ voiceMounted
    /\ UnmountCleanup
    /\ LoadResults
    /\ UNCHANGED navigateTimer
    /\ UNCHANGED storageVars
    /\ UNCHANGED typingVars
    /\ UNCHANGED voicePage

NextAssessment ==
    \/ OpenTypingTest
    \/ WsOpen
    \/ WsClosed
    \/ OnMessage
    \/ UnmountTypingTest
    \/ MountVoiceTest
    \/ StartRecording
    \/ MicGranted
    \/ StopRecording
    \/ RecorderStopped
    \/ AnalyzeVoice
    \/ AnalysisSucceeded
    \/ AnalysisFailed
    \/ NavigateToResults
    \/ OpenResults
    \/ StartAssessment

SpecAssessment == InitAssessment /\ [][NextAssessment]_vars

-----------------------------------------------------------------------------
(* The voice test of the research pages (VoiceTestPage component).         *)

\* the limit of the interval callback: `if (prev >= 10)`
PageRecordingLimit == 10

\* what the other components and the tracker keep while VoiceTestPage acts
VoicePageFrame ==
    /\ UNCHANGED trackerVars
    /\ UNCHANGED typingVars
    /\ UNCHANGED voiceVars

\* VoiceTestPage.stopRecording applied to the component state
pageStopRecording(v) ==
    IF v.recorder = "recording"
    THEN [v EXCEPT !.recorder = "inactive", !.isRecording = FALSE,
                   !.timerOn = FALSE]
    ELSE v

\* the interval callback: setRecordingTime(prev => prev >= 10 ?
\* (stopRecording(), 10) : prev + 1)
pageTimer(v) ==
    IF v.recordingTime >= PageRecordingLimit
    THEN [pageStopRecording(v) EXCEPT !.ticks = v.ticks + 1,
                                      !.recordingTime = PageRecordingLimit]
    ELSE [v EXCEPT !.ticks = v.ticks + 1,
                   !.recordingTime = v.recordingTime + 1]

\* the Start button (shown without audioBlob and while not recording):
\* startRecording up to `await getUserMedia`
PageStartRecording ==
    /\ voicePage.mounted
    /\ ~voicePage.audioBlob /\ ~voicePage.isRecording
    /\ voicePage.recorder \in {"none", "denied", "released"}
    /\ voicePage' = [voicePage EXCEPT !.recorder = "requested"]
    /\ VoicePageFrame
    /\ UNCHANGED storageVars
    /\ UNCHANGED resultsVars

\* getUserMedia resolves: mediaRecorder.start(), setIsRecording(true),
\* setRecordingTime(0), setInterval
PageMicGranted ==
    /\ voicePage.recorder = "requested"
    /\ voicePage' = [voicePage EXCEPT !.recorder = "recording",
                                      !.isRecording = TRUE,
                                      !.recordingTime = 0,
                                      !.ticks = 0,
                                      !.timerOn = TRUE]
    /\ VoicePageFrame
    /\ UNCHANGED storageVars
    /\ UNCHANGED resultsVars

\* getUserMedia rejects: the catch block alerts
PageMicDenied ==
    /\ voicePage.recorder = "requested"
    /\ voicePage' = [voicePage EXCEPT !.recorder = "denied"]
    /\ VoicePageFrame
    /\ UNCHANGED storageVars
    /\ UNCHANGED resultsVars

\* one second passes: the interval callback runs
PageTimerTick ==
    /\ voicePage.timerOn
    /\ voicePage' = pageTimer(voicePage)
    /\ VoicePageFrame
    /\ UNCHANGED storageVars
    /\ UNCHANGED resultsVars

\* the Stop button (shown while isRecording)
PageStopRecording ==
    /\ voicePage.mounted
    /\ voicePage.isRecording
    /\ voicePage' = pageStopRecording(voicePage)
    /\ VoicePageFrame
    /\ UNCHANGED storageVars
    /\ UNCHANGED resultsVars

\* mediaRecorder.onstop: setAudioBlob(blob), the tracks are stopped
PageRecorderStopped ==
    /\ voicePage.recorder = "inactive"
    /\ voicePage' = [voicePage EXCEPT !.recorder = "released",
                                      !.audioBlob = TRUE]
    /\ VoicePageFrame
    /\ UNCHANGED storageVars
    /\ UNCHANGED resultsVars

\* handleRetry (shown with an audioBlob and no analysisResult)
PageRetry ==
    /\ voicePage.mounted
    /\ voicePage.audioBlob /\ ~voicePage.analysisResult
    /\ voicePage' = [voicePage EXCEPT !.audioBlob = FALSE,
                                      !.analysisResult = FALSE,
                                      !.recordingTime = 0]
    /\ VoicePageFrame
    /\ UNCHANGED storageVars
    /\ UNCHANGED resultsVars

\* the Analyze button (disabled while isAnalyzing): setIsAnalyzing(true) and
\* the fetch
PageAnalyzeVoice ==
    /\ voicePage.mounted
    /\ voicePage.audioBlob /\ ~voicePage.analysisResult
    /\ ~voicePage.isAnalyzing
    /\ voicePage' = [voicePage EXCEPT !.isAnalyzing = TRUE]
    /\ VoicePageFrame
    /\ UNCHANGED storageVars
    /\ UNCHANGED resultsVars

\* analyzeVoice, success path: setAnalysisResult, the sessionStorage write,
\* and the finally block
PageAnalysisSucceeded ==
    /\ voicePage.isAnalyzing
    /\ voicePage' = [voicePage EXCEPT !.isAnalyzing = FALSE,
                                      !.analysisResult = TRUE]
    /\ \E result \in AnalysisResponses : voiceAnalysis' = result
    /\ written' = written \cup {"voiceAnalysis"}
    /\ UNCHANGED <<typingAnalysis, blinkAnalysisVoice>>
    /\ VoicePageFrame
    /\ UNCHANGED resultsVars

\* analyzeVoice, failure path: the alert and the finally block
PageAnalysisFailed ==
    /\ voicePage.isAnalyzing
    /\ voicePage' = [voicePage EXCEPT !.isAnalyzing = FALSE]
    /\ VoicePageFrame
    /\ UNCHANGED storageVars
    /\ UNCHANGED resultsVars

\* handleNext (shown with an analysisResult): navigate('/results')
PageHandleNext ==
    /\ voicePage.mounted
    /\ voicePage.analysisResult
    /\ page = "test"
    /\ voicePage' = [voicePage EXCEPT !.mounted = FALSE]
    /\ LoadResults
    /\ VoicePageFrame
    /\ UNCHANGED storageVars

NextVoicePage ==
    \/ PageStartRecording
    \/ PageMicGranted
    \/ PageMicDenied
    \/ PageTimerTick
    \/ PageStopRecording
    \/ PageRecorderStopped
    \/ PageRetry
    \/ PageAnalyzeVoice
    \/ PageAnalysisSucceeded
    \/ PageAnalysisFailed
    \/ PageHandleNext

SpecVoicePage == Init /\ [][NextVoicePage]_vars

\* the typing session of the current assessment ended without a `final`
TypingClosedBeforeFinal ==
    /\ mountCount > 0 /\ readyState = "CLOSED"
    /\ "typingAnalysis" \notin written

\* the voice analysis of the current assessment failed
VoiceAnalysisFailed ==
    /\ toast = "analysis-error"
    /\ "voiceAnalysis" \notin written

\* C29: no stored result outlives its assessment: on the results page, when
\* the typing session of the current assessment closed before `final` there
\* is no typing result in the fusion, and when its voice analysis failed
\* there is no voice result in it.
C29_NoStaleResults ==
    page = "results" =>
        /\ TypingClosedBeforeFinal => typingResults = Null
        /\ VoiceAnalysisFailed => voiceResults = Null

-----------------------------------------------------------------------------
(* The voice test.                                                         *)

\* C24: on every way out of a recording the microphone is released and the
\* timer cleared: no stream is left open after a failed start, and once
\* the recording was stopped or the component has unmounted no stream is
\* still being recorded with its interval running (a stream whose recorder
\* was stopped is released by the pending onstop event).
C24_MicrophoneReleased ==
    \A i \in 1..Len(streams) :
        /\ streams[i] # "live"
        /\ (~voiceMounted \/ ~isActive) =>
               ~(MicrophoneOpen(i) /\ IntervalRunning(i))

\* a step in which an awaited camera.start() rejects
CameraFails ==
    \E i \in 1..Len(cameras) : cameras[i] = "starting" /\ cameras'[i] = "failed"

\* C26: when the camera cannot start, tracking is never reported (isTracking
\* stays false while no camera has started) and the failure leaves the
\* recording, its audio, the analysis and the stored results as they are, so
\* the voice test goes on to be stopped, analyzed and fused.
C26_CameraFailureTolerated ==
    /\ []((\A i \in 1..Len(cameras) : cameras[i] = "failed") => ~isTracking)
    /\ [][CameraFails =>
             /\ isTracking' = isTracking
             /\ UNCHANGED <<isActive, voiceVars, storageVars, resultsVars>>]_vars

\* the camera failed, and the recording was stopped, analyzed and its result
\* fused on the results page
C26_Witness ==
    /\ Len(cameras) = 1 /\ cameras[1] = "failed"
    /\ ~isTracking
    /\ Len(streams) = 1 /\ streams[1] = "released"
    /\ blinkAnalysisVoice # Null
    /\ voiceAnalysis \in AnalysisResponses
    /\ page = "results"
    /\ lastCall # Null /\ lastCall.voice = voiceAnalysis
    /\ riskCategory # InitialRiskCategory

\* C27: a voice analysis ends in one of two ways.  On failure the error is
\* reported, no voice result is stored and no navigation to the results is
\* scheduled or made; on success the result is stored and the navigation
\* scheduled.  Either way isAnalyzing is false afterwards.
C27_AnalysisFailureExplicit ==
    [][ /\ (isAnalyzing /\ ~isAnalyzing') =>
              \/ /\ toast' = "analysis-error"
                 /\ UNCHANGED <<voiceAnalysis, navigateTimer, page>>
              \/ /\ toast' = "analysis-complete"
                 /\ voiceAnalysis' \in AnalysisResponses
                 /\ navigateTimer'
        /\ (isAnalyzing /\ toast' # toast
               /\ toast' \in {"analysis-error", "analysis-complete"}) =>
              ~isAnalyzing'
        /\ (voiceAnalysis' # voiceAnalysis) => toast' = "analysis-complete"
      ]_vars

\* a failed analysis of a recorded audio: error shown, nothing stored, still
\* on the voice test
C27_Witness ==
    /\ toast = "analysis-error"
    /\ audioBlob
    /\ ~isAnalyzing
    /\ voiceAnalysis = Null
    /\ ~navigateTimer
    /\ voiceMounted /\ page = "test"

\* the recording is over: MediaRecorder stopped, isRecording false, no
\* interval running, no microphone open
RecordingStopped ==
    /\ ~isActive
    /\ \A i \in 1..Len(streams) : ~IntervalRunning(i) /\ ~MicrophoneOpen(i)

\* C30: a running recording eventually stops without any user action, by
\* the timer reaching the limit (unless the user leaves the page first).
C30_RecordingEventuallyStops ==
    (voiceMounted /\ isActive) ~> (RecordingStopped \/ ~voiceMounted)

-----------------------------------------------------------------------------
(* The voice test of the research pages.                                   *)

\* C31: the automatic stop comes with the tick on which the count reaches
\* the advertised 10 seconds: from the 10th one-second tick after the start
\* on the recorder no longer records, and recordingTime never exceeds 10.
C31_StopsAtLimit ==
    /\ voicePage.recordingTime <= PageRecordingLimit
    /\ voicePage.ticks >= PageRecordingLimit => voicePage.recorder # "recording"

-----------------------------------------------------------------------------
(* The typing test's timer and state.                                      *)

\* a step of the mounted component (neither a mount nor an unmount)
WhileMounted == mounted /\ mounted'

\* the step appends an `end` to the messages sent
SendsEnd == sent' = Append(sent, "end")

\* C32: an active typing test eventually completes (unless the user leaves
\* first); every tick takes exactly one second off timeLeft, so the test
\* completes on the 30th tick, the one that brings timeLeft to 0; and on an
\* open channel the timer sends `end` on that tick and on no other.
C32_TimerTermination ==
    /\ (mounted /\ testActive) ~> (isComplete \/ ~mounted)
    /\ [][WhileMounted =>
             /\ timeLeft' # timeLeft =>
                    /\ timeLeft' = timeLeft - 1
                    /\ testActive
             /\ (~isComplete /\ isComplete') <=> TimerExpires
             /\ (TimerExpires /\ readyState = "OPEN") => SendsEnd
             /\ SendsEnd => TimerExpires]_vars

\* the timer ran out on an open channel: complete, one `end` sent
C32_Witness ==
    /\ mounted /\ readyState = "OPEN"
    /\ isComplete /\ ~testActive
    /\ timeLeft = 0
    /\ sent = <<"end">>

\* C33: timeLeft stays within 0..30, the test is never active and complete
\* at once, a complete test has timeLeft 0; and within one mount timeLeft
\* never increases, a complete test stays complete and is never active
\* again, whatever is typed.
C33_TypingStateInvariant ==
    /\ [](/\ timeLeft \in 0..InitialTimeLeft
          /\ ~(testActive /\ isComplete)
          /\ isComplete => timeLeft = 0)
    /\ [][mountCount' = mountCount =>
             /\ timeLeft' <= timeLeft
             /\ isComplete => (isComplete' /\ ~testActive')]_vars

\* the test is complete, the completed state is rendered, and there is text
\* typed in the field
C33_Witness ==
    /\ mounted
    /\ isComplete /\ rendered.isComplete /\ ~renderPending
    /\ input > 0
    /\ ~testActive /\ timeLeft = 0

-----------------------------------------------------------------------------
(* The keystroke protocol's messages.                                      *)

C38_StoredOnlyFromFinal ==
    /\ [](typingAnalysis # Null => typingAnalysis \in FinalMessages)
    /\ [][/\ (typingAnalysis' # typingAnalysis) =>
                (lastFinal' = typingAnalysis' /\ lastFinal' # Null)
          /\ (lastFinal' # lastFinal /\ lastFinal' # Null) =>
                (typingAnalysis' = lastFinal')
          /\ (lastUpdate' # lastUpdate) => (typingAnalysis' = typingAnalysis)
          /\ (sessionIdRef' # sessionIdRef) =>
                (typingAnalysis' = typingAnalysis)
         ]_vars

\* a `final` was stored and an `update` received after it left it in place
C38_Witness ==
    /\ typingAnalysis # Null
    /\ typingAnalysis = lastFinal
    /\ lastUpdate # Null
    /\ analysisScore = lastUpdate.score
    /\ analysisScore # typingAnalysis.score_0to1

-----------------------------------------------------------------------------
(* The microphone.                                                         *)

\* the streams whose tracks have not been stopped
OpenStreams == {i \in 1..Len(streams) : MicrophoneOpen(i)}

\* C36: whatever the order of start requests, stop requests and retries, at
\* most one microphone stream (with its MediaRecorder) is open at a time,
\* and a stream being recorded is the one the recorder reference points to,
\* which is the one a stop releases.
C36_ExclusiveMicrophone ==
    /\ Cardinality(OpenStreams) <= 1
    /\ \A i \in 1..Len(streams) : streams[i] = "recording" => recorderRef = i

-----------------------------------------------------------------------------
(* Blink data of a recording without a camera.                             *)

\* every camera created so far failed to start, so that no frame was ever
\* processed
CameraUnavailable ==
    /\ Len(cameras) > 0
    /\ \A i \in 1..Len(cameras) : cameras[i] = "failed"

\* C37: when the camera could not be started, so that blink tracking never
\* ran, stopping the recording stores no blink analysis: no zero-blink
\* summary is recorded for a session without a processed frame.
C37_NoBlinkDataWithoutCamera ==
    CameraUnavailable => blinkAnalysisVoice = Null

-----------------------------------------------------------------------------
(* Fusion on the results page, continued.                                  *)

\* C35: when the stored voice result has a response that cannot be parsed,
\* or one without overall_risk_score, and a typing score is stored, the
\* typing score alone is the overall risk and determines the band; no
\* parsed voice analysis is kept from a response that cannot be parsed.
C35_UnparsableVoiceExcluded ==
    (OnResults /\ TypingScores # {} /\ voiceAnalysis # Null
       /\ ~VoiceParsable(voiceAnalysis)) =>
        /\ overallRisk = typingAnalysis.score_0to1
        /\ riskCategory = BandOf(typingAnalysis.score_0to1)
        /\ voiceAnalysis.raw = "garbage" => parsedVoiceAnalysis = Null

\* a typing score of 0.8 and a voice response that is not JSON
C35_Witness ==
    /\ OnResults
    /\ typingAnalysis # Null /\ typingAnalysis.score_0to1 = Rat(8, 10)
    /\ voiceAnalysis # Null /\ voiceAnalysis.raw = "garbage"
    /\ overallRisk = Rat(8, 10)
    /\ riskCategory = "high"

\* the values the results page fuses: the stored typing score and the
\* score of a readable voice response
ContributingValues == {m.value : m \in TypingScores \cup VoiceScores}

\* the bands in rising order
BandRank(band) ==
    CASE band = "low"      -> 0
      [] band = "moderate" -> 1
      [] band = "elevated" -> 2
      [] band = "high"     -> 3

\* the risks k/20, which include every mean of two stored scores
RiskGrid == {Rat(k, 20) : k \in 0..20}

\* C39: when at least one value contributes and every contributing value
\* is in [0,1], overallRisk is at least the smallest and at most the largest
\* contributing value, hence in [0,1], and the band does not fall as the
\* risk rises: a lower risk has the same or a lower band than the one
\* shown, a higher risk the same or a higher one.
C39_FusionRange ==
    (/\ OnResults
     /\ ContributingValues # {}
     /\ \A v \in ContributingValues : RatLE(R0, v) /\ RatLE(v, R1)) =>
        /\ \E lo, hi \in ContributingValues :
              /\ RatLE(lo, overallRisk)
              /\ RatLE(overallRisk, hi)
        /\ RatLE(R0, overallRisk) /\ RatLE(overallRisk, R1)
        /\ riskCategory \in {"low", "moderate", "elevated", "high"}
        /\ \A q \in RiskGrid :
              /\ RatLE(q, overallRisk) =>
                    BandRank(RiskBand(q)) <= BandRank(riskCategory)
              /\ RatLE(overallRisk, q) =>
                    BandRank(riskCategory) <= BandRank(RiskBand(q))

\* a typing score of 0.2 and a voice score of 0.8 fused to 0.5
C39_Witness ==
    /\ OnResults
    /\ ContributingValues = {Rat(2, 10), Rat(8, 10)}
    /\ overallRisk = Rat(1, 2)
    /\ riskCategory = "elevated"

====
